---- MODULE Spec2Model ----
(***************************************************************************)
(* Model of the figure extraction and reference-matching engine of         *)
(* literature-agent-V2: SmartAgent (load_pdf, _match_figures_intelligently,*)
(* query, auto_split_all_figures), SubfigureAnalyzer, SubfigureSplitter,   *)
(* ImprovedPDFParser._merge_nearby_bboxes and                              *)
(* FigureReferenceExtractor.extract_references.                            *)
(***************************************************************************)
EXTENDS Integers, Sequences, FiniteSets, TLC

(***************************************************************************)
(* Bounds of the model.                                                    *)
(***************************************************************************)
MaxPage == 4
MaxImages == 2
MaxFig == 2
LifeImages == 1
LifeFig == 1
MaxPanels == 1

(***************************************************************************)
(* Program constants.                                                      *)
(***************************************************************************)
HighThreshold == 50000
LowThreshold == 20000
WindowHalfWidth == 2
AutoSplitLimit == 5

\* byte sizes on both sides of (and on) the two thresholds
Sizes == {20000, 50000, 80000}

VARIABLES
  doc,          \* the parsed PDF handed to load_pdf: figures and cited numbers
  texts,        \* SmartAgent.texts: per page, the figure numbers its text cites
  all_images,   \* SmartAgent.all_images
  figure_map,   \* SmartAgent.figure_map
  raised,       \* TRUE when the last _match_figures_intelligently raised
  gen,          \* the suspended SmartAgent.query generators
  splitCalls,   \* per figure number: invocations of SubfigureSplitter.split
  last,         \* outcome of the last completed request
  image_bboxes,     \* the rectangles handed to _merge_nearby_bboxes
  threshold,        \* its threshold argument
  merged_bboxes,    \* the list it returned
  other_threshold,  \* the threshold of a second run on the same rectangles
  other_bboxes,     \* the list the second run returned
  mergeStep,        \* "input", "merged", "again" or "compared"
  loop_merged,      \* the list the while loop of _merge_nearby_bboxes works on
  changed,          \* its flag
  passStep,         \* "input", "loop" or "returned"
  image_groups,     \* the list _group_nearby_images returned
  pdf,              \* the opened document: per page, its embedded image objects
  extraction_mode,  \* ImprovedPDFParser.extraction_mode
  config,           \* min_image_size, min_bbox_area, max_aspect_ratio
  page_num,         \* the number of pages parse has been through
  figures,          \* the figures parse has collected
  raster_log,       \* what became of each region handed to page.get_pixmap
  text,             \* the string handed to extract_references
  unique_refs,      \* the list it returned
  extractStep,      \* "input" or "extracted"
  loaders,          \* two SmartAgent objects, each running load_pdf
  files             \* the image files on disk: <<directory, name>> -> bytes

agentVars == <<doc, texts, all_images, figure_map, raised, gen, splitCalls, last>>
passVars == <<loop_merged, changed, passStep>>
parseVars == <<pdf, extraction_mode, config, page_num, figures, raster_log>>
parserVars == <<image_bboxes, threshold, merged_bboxes, other_threshold,
                other_bboxes, mergeStep, passVars, image_groups, parseVars>>
extractorVars == <<text, unique_refs, extractStep>>
loaderVars == <<loaders, files>>

vars == <<agentVars, parserVars, extractorVars, loaderVars>>

(***************************************************************************)
(* Python helpers.                                                         *)
(***************************************************************************)
MinOf(S) == CHOOSE x \in S : \A y \in S : x <= y
MaxOf(S) == CHOOSE x \in S : \A y \in S : y <= x

\* sorted(keys): the ascending sequence of a finite set of integers
RECURSIVE Sorted(_)
Sorted(S) == IF S = {} THEN << >>
             ELSE LET m == MinOf(S) IN <<m>> \o Sorted(S \ {m})

\* the empty dict
EmptyDict == << >>

\* the value stored for a cited figure number without a candidate image
None == [none |-> TRUE]
IsNone(r) == "none" \in DOMAIN r

(***************************************************************************)
(* SmartAgent.load_pdf, lines 63-74: ids are list indices, the path is     *)
(* raw_<idx>, the size is the byte length.                                 *)
(***************************************************************************)
\* the id taken from the figure's index within its page
MakeImagesByPageIndex(figs) ==
  [i \in 1..Len(figs) |->
     [id |-> Len(SelectSeq(SubSeq(figs, 1, i - 1), LAMBDA f : f.page = figs[i].page)),
      path |-> i - 1, page |-> figs[i].page, size |-> figs[i].size]]

MakeImages(figs) ==
  [i \in 1..Len(figs) |->
     [id |-> i - 1, path |-> i - 1, page |-> figs[i].page, size |-> figs[i].size]]

(***************************************************************************)
(* _match_figures_intelligently, lines 109-121: figure number -> pages on  *)
(* which it is cited.                                                      *)
(***************************************************************************)
CitedNums(txts) == UNION {txts[i].figs : i \in 1..Len(txts)}
FigurePages(txts) ==
  [n \in CitedNums(txts) |-> {txts[i].page : i \in {j \in 1..Len(txts) : n \in txts[j].figs}}]

\* a window of three pages on either side
SearchPagesWide(first_mention_page) ==
  {page \in {first_mention_page + offset :
                offset \in (0 - WindowHalfWidth - 1)..(WindowHalfWidth + 1)} : page > 0}

\* lines 131-136
SearchPages(first_mention_page) ==
  {page \in {first_mention_page + offset :
                offset \in (0 - WindowHalfWidth)..WindowHalfWidth} : page > 0}

\* the candidate filter without the used_image_ids test
CandidateImagesAnyId(images, search_pages, used_image_ids) ==
  SelectSeq(images, LAMBDA img : img.page \in search_pages)

\* lines 141-144
CandidateImages(images, search_pages, used_image_ids) ==
  SelectSeq(images, LAMBDA img : img.page \in search_pages /\ img.id \notin used_image_ids)

\* the tiers with the comparisons the other way round
LargeImagesInverted(candidate_images) ==
  LET t1 == SelectSeq(candidate_images, LAMBDA img : img.size < HighThreshold)
      t2 == SelectSeq(candidate_images, LAMBDA img : img.size < LowThreshold)
  IN IF t1 # << >> THEN t1 ELSE IF t2 # << >> THEN t2 ELSE candidate_images

\* lines 153-161
LargeImages(candidate_images) ==
  LET t1 == SelectSeq(candidate_images, LAMBDA img : img.size > HighThreshold)
      t2 == SelectSeq(candidate_images, LAMBDA img : img.size > LowThreshold)
  IN IF t1 # << >> THEN t1 ELSE IF t2 # << >> THEN t2 ELSE candidate_images

\* the last element of maximal size
BestImageLastMax(large_images) ==
  large_images[CHOOSE i \in 1..Len(large_images) :
                 /\ \A j \in 1..Len(large_images) : large_images[j].size <= large_images[i].size
                 /\ \A j \in (i + 1)..Len(large_images) :
                       large_images[j].size < large_images[i].size]

\* the first element, whatever its size
BestImageFirst(large_images) == large_images[1]

\* line 164: max(seq, key=size) returns the first element of maximal size
BestImage(large_images) ==
  large_images[CHOOSE i \in 1..Len(large_images) :
                 /\ \A j \in 1..Len(large_images) : large_images[j].size <= large_images[i].size
                 /\ \A j \in 1..(i - 1) : large_images[j].size < large_images[i].size]

\* lines 170-175 and 200-205
NewRecord(img) ==
  [path |-> img.path, page |-> img.page, subfigures |-> EmptyDict, split_attempted |-> FALSE]

\* d[k] = v on a dict modelled as a function
DictSet(d, k, v) == [x \in DOMAIN d \cup {k} |-> IF x = k THEN v ELSE d[x]]

\* the iteration with a bare "continue" for an empty candidate pool
MatchOneSkipUnmatched(fig_num, figure_pages, images, st) ==
  LET pages == figure_pages[fig_num]
      candidate_images ==
        CandidateImages(images, SearchPages(MinOf(pages)), st.used)
      large_images == LargeImages(candidate_images)
  IN IF pages = {} THEN [st EXCEPT !.raised = TRUE]
     ELSE IF candidate_images = << >> THEN st
     ELSE IF large_images = << >> THEN [st EXCEPT !.raised = TRUE]
     ELSE LET best_image == BestImage(large_images)
          IN [st EXCEPT !.fm = DictSet(st.fm, fig_num, NewRecord(best_image)),
                        !.used = st.used \cup {best_image.id}]

(***************************************************************************)
(* Strategy 1, lines 126-177: one iteration per cited number, ascending.   *)
(* st = [fm: figure_map, used: used_image_ids, raised: an exception left]. *)
(***************************************************************************)
MatchOne(fig_num, figure_pages, images, st) ==
  LET pages == figure_pages[fig_num]
      candidate_images ==
        CandidateImages(images, SearchPages(MinOf(pages)), st.used)
      large_images == LargeImages(candidate_images)
  IN IF pages = {} THEN [st EXCEPT !.raised = TRUE]
     ELSE IF candidate_images = << >>
       THEN [st EXCEPT !.fm = DictSet(st.fm, fig_num, None)]
     ELSE IF large_images = << >> THEN [st EXCEPT !.raised = TRUE]
     ELSE LET best_image == BestImage(large_images)
          IN [st EXCEPT !.fm = DictSet(st.fm, fig_num, NewRecord(best_image)),
                        !.used = st.used \cup {best_image.id}]

RECURSIVE PrimaryPass(_, _, _, _)
PrimaryPass(keys, figure_pages, images, st) ==
  IF keys = << >> \/ st.raised THEN st
  ELSE PrimaryPass(Tail(keys), figure_pages, images,
                   MatchOne(Head(keys), figure_pages, images, st))

(***************************************************************************)
(* Strategy 2, lines 181-210.                                              *)
(***************************************************************************)
\* the unused images of any size
UnmatchedImagesAnySize(images, used_image_ids) ==
  SelectSeq(images, LAMBDA img : img.id \notin used_image_ids)

UnmatchedLargeImages(images, used_image_ids) ==
  SelectSeq(images, LAMBDA img : img.id \notin used_image_ids /\ img.size > HighThreshold)

\* line 190: list.sort(key=(page, -size)) is stable
SortBefore(s, i, j) ==
  \/ s[i].page < s[j].page
  \/ s[i].page = s[j].page /\ s[i].size > s[j].size
  \/ s[i].page = s[j].page /\ s[i].size = s[j].size /\ i < j

RECURSIVE SortByPageSize(_, _)
SortByPageSize(s, idx) ==
  IF idx = {} THEN << >>
  ELSE LET i == CHOOSE i \in idx : \A j \in idx \ {i} : SortBefore(s, i, j)
       IN <<s[i]>> \o SortByPageSize(s, idx \ {i})

\* one more than the largest number with a record
FirstFallbackNumAboveBound(fm) ==
  LET bound == {n \in DOMAIN fm : ~IsNone(fm[n])}
  IN IF bound # {} THEN MaxOf(bound) + 1 ELSE 1

\* line 193
FirstFallbackNum(fm) == IF DOMAIN fm # {} THEN MaxOf(DOMAIN fm) + 1 ELSE 1

\* lines 197-198
RECURSIVE SkipTaken(_, _)
SkipTaken(next_fig_num, fm) ==
  IF next_fig_num \in DOMAIN fm THEN SkipTaken(next_fig_num + 1, fm) ELSE next_fig_num

\* the loop left after its first image
FallbackLoopFirstOnly(imgs, next_fig_num, st) ==
  IF imgs = << >> THEN st
  ELSE LET n == SkipTaken(next_fig_num, st.fm)
       IN [st EXCEPT !.fm = DictSet(st.fm, n, NewRecord(Head(imgs))),
                     !.used = st.used \cup {Head(imgs).id}]

RECURSIVE FallbackLoop(_, _, _)
FallbackLoop(imgs, next_fig_num, st) ==
  IF imgs = << >> THEN st
  ELSE LET n == SkipTaken(next_fig_num, st.fm)
       IN FallbackLoop(Tail(imgs), n + 1,
            [st EXCEPT !.fm = DictSet(st.fm, n, NewRecord(Head(imgs))),
                       !.used = st.used \cup {Head(imgs).id}])

FallbackPass(images, st) ==
  LET unmatched_large_images == UnmatchedLargeImages(images, st.used)
  IN IF st.raised \/ unmatched_large_images = << >> THEN st
     ELSE FallbackLoop(
            SortByPageSize(unmatched_large_images, 1..Len(unmatched_large_images)),
            FirstFallbackNum(st.fm), st)

\* the pass started on the agent's figure_map instead of a new dict
MatchFiguresFromCurrentMap(txts, images) ==
  LET figure_pages == FigurePages(txts)
      st0 == [fm |-> figure_map, used |-> {}, raised |-> FALSE]
  IN FallbackPass(images,
       PrimaryPass(Sorted(DOMAIN figure_pages), figure_pages, images, st0))

\* lines 96-216
MatchFiguresIntelligently(txts, images) ==
  LET figure_pages == FigurePages(txts)
      st0 == [fm |-> EmptyDict, used |-> {}, raised |-> FALSE]
  IN FallbackPass(images,
       PrimaryPass(Sorted(DOMAIN figure_pages), figure_pages, images, st0))

(***************************************************************************)
(* Documents: what ImprovedPDFParser.parse hands to load_pdf.  Figures     *)
(* come in page order (parse, lines 59-84); every page has text.           *)
(***************************************************************************)
SeqsUpTo(S, n) == UNION {[1..k -> S] : k \in 0..n}

DocsOf(maxPage, maxImages, maxFig, sizes) ==
  {[figs |-> f, cites |-> c] :
     f \in {s \in SeqsUpTo([page : 1..maxPage, size : sizes], maxImages) :
              \A i \in 1..(Len(s) - 1) : s[i].page <= s[i + 1].page},
     c \in [1..maxPage -> SUBSET (1..maxFig)]}

Docs == DocsOf(MaxPage, MaxImages, MaxFig, Sizes)

MakeTexts(d) == [p \in DOMAIN d.cites |-> [page |-> p, figs |-> d.cites[p]]]

(***************************************************************************)
(* State after SmartAgent.__init__ (lines 40-43).                          *)
(***************************************************************************)
\* a query without subfigure letter, a question without figure number
NoSub == "-"
NoFig == 0

Generators == {"q1", "q2"}
IdleGen == [pc |-> "idle", fig |-> NoFig, sub |-> NoSub, env |-> "-"]

NoDoc == [figs |-> << >>, cites |-> << >>]

InitAgent ==
  /\ texts = << >>
  /\ all_images = << >>
  /\ figure_map = EmptyDict
  /\ raised = FALSE
  /\ gen = [q \in Generators |-> IdleGen]
  /\ splitCalls = << >>
  /\ last = [op |-> "init"]

\* the while loop of _merge_nearby_bboxes is not running
PassIdle ==
  /\ loop_merged = << >>
  /\ changed = FALSE
  /\ passStep = "idle"

\* no document is open in the parser
ParseIdle ==
  /\ pdf = << >>
  /\ extraction_mode = "idle"
  /\ config = << >>
  /\ page_num = 0
  /\ figures = << >>
  /\ raster_log = << >>

\* no rectangle list has been handed to the parser's merge
ParserIdle ==
  /\ image_bboxes = << >>
  /\ threshold = 0
  /\ merged_bboxes = << >>
  /\ other_threshold = 0
  /\ other_bboxes = << >>
  /\ mergeStep = "idle"
  /\ PassIdle
  /\ image_groups = << >>
  /\ ParseIdle

\* no second SmartAgent exists and no file has been written
LoadersIdle ==
  /\ loaders = << >>
  /\ files = << >>

\* no text has been handed to the reference extractor
ExtractorIdle ==
  /\ text = << >>
  /\ unique_refs = << >>
  /\ extractStep = "idle"

(***************************************************************************)
(* SmartAgent.load_pdf run to completion (routes.upload_pdf drains the     *)
(* generator in one handler).                                              *)
(***************************************************************************)
\* whether a record of the map has been through a split
Attempted(fm) == {n \in DOMAIN fm : ~IsNone(fm[n]) /\ fm[n].split_attempted}

\* load_pdf that keeps the records the map already has
LoadPdfKeepingRecords(d) ==
  LET images == MakeImages(d.figs)
      txts == MakeTexts(d)
      st == MatchFiguresIntelligently(txts, images)
  IN /\ texts' = txts
     /\ all_images' = images
     /\ figure_map' = [n \in DOMAIN st.fm \cup DOMAIN figure_map |->
                         IF n \in DOMAIN figure_map THEN figure_map[n] ELSE st.fm[n]]
     /\ raised' = st.raised
     /\ splitCalls' = [n \in DOMAIN st.fm \cup DOMAIN figure_map |-> 0]
     /\ last' = [op |-> "load_pdf", replaced |-> Attempted(figure_map)]
     /\ UNCHANGED gen

\* last.replaced: the numbers whose record, at the time of the load, had
\* been through a split
LoadPdf(d) ==
  LET images == MakeImages(d.figs)
      txts == MakeTexts(d)
      st == MatchFiguresIntelligently(txts, images)
  IN /\ texts' = txts
     /\ all_images' = images
     /\ figure_map' = st.fm
     /\ raised' = st.raised
     /\ splitCalls' = [n \in DOMAIN st.fm |-> 0]
     /\ last' = [op |-> "load_pdf", replaced |-> Attempted(figure_map)]
     /\ UNCHANGED gen

\* one document out of Docs is uploaded and loaded
InitMatch == InitAgent /\ doc \in Docs /\ ParserIdle /\ ExtractorIdle /\ LoadersIdle

LoadUploaded == LoadPdf(doc) /\ UNCHANGED <<doc, parserVars, extractorVars, loaderVars>>

\* self.figure_map = self._match_figures_intelligently() once more, on the
\* texts and images of the loaded document; last keeps the map of before
MatchAgain ==
  /\ last.op = "load_pdf"
  /\ ~raised
  /\ LET st == MatchFiguresIntelligently(texts, all_images)
     IN /\ figure_map' = st.fm
        /\ raised' = st.raised
        /\ splitCalls' = [n \in DOMAIN st.fm |-> 0]
  /\ last' = [op |-> "match_again", before |-> figure_map]
  /\ UNCHANGED <<doc, texts, all_images, gen, parserVars, extractorVars, loaderVars>>

NextMatch == LoadUploaded \/ MatchAgain

SpecMatch == InitMatch /\ [][NextMatch]_vars

(***************************************************************************)
(* C1: after a matching pass no extracted image is bound to more than one  *)
(* figure number of figure_map.                                            *)
(***************************************************************************)
Bound(fm) == {n \in DOMAIN fm : ~IsNone(fm[n])}

C1_Exclusive ==
  \A n1 \in Bound(figure_map) : \A n2 \in Bound(figure_map) :
     n1 # n2 => figure_map[n1].path # figure_map[n2].path

\* two cited figures whose windows share a page got different images of it
C1_Witness ==
  \E n1 \in Bound(figure_map) : \E n2 \in Bound(figure_map) :
     /\ n1 < n2
     /\ n1 \in CitedNums(texts) /\ n2 \in CitedNums(texts)
     /\ figure_map[n1].page = figure_map[n2].page
     /\ figure_map[n1].path # figure_map[n2].path

(***************************************************************************)
(* SubfigureSplitter.                                                      *)
(***************************************************************************)
\* __init__, lines 32-54: every branch ends with self.enabled = True
enabled == TRUE

\* what the environment does to one invocation of split
SplitEnv == {"panels", "no_panels", "nonzero", "timeout", "failed",
             "no_separator", "raise"}
FailEnv == {"nonzero", "timeout", "failed", "no_separator", "raise"}

\* lines 162-167
LetterLabels == <<"a", "b", "c", "d", "e", "f", "g", "h", "i", "j">>
NumberLabels == <<"1", "2", "3", "4", "5", "6", "7", "8", "9", "10">>

\* lines 159-202: crop the detected panels, label them in order
CropPanels(count, figure_num, use_numbers) ==
  LET labels == IF use_numbers THEN NumberLabels ELSE LetterLabels
      separator == IF use_numbers THEN "-" ELSE ""
      kept == {i \in 1..count : i <= Len(labels)}
  IN [l \in {labels[i] : i \in kept} |->
        [figure |-> figure_num, sep |-> separator, label |-> l]]

\* split without the return-code test of lines 117-119
SplitIgnoringReturnCode(env, count, figure_num, use_numbers) ==
  IF env \in {"raise"} THEN [raised |-> TRUE, subfigs |-> EmptyDict]
  ELSE IF env \in {"no_separator", "no_panels", "timeout", "failed"}
    THEN [raised |-> FALSE, subfigs |-> EmptyDict]
  ELSE [raised |-> FALSE, subfigs |-> CropPanels(count, figure_num, use_numbers)]

\* split, lines 56-211.  Lines 73-82 run outside the try block; whatever is
\* raised inside it is caught and turned into {}.
Split(env, count, figure_num, use_numbers) ==
  IF ~enabled THEN [raised |-> FALSE, subfigs |-> EmptyDict]
  ELSE IF env = "raise" THEN [raised |-> TRUE, subfigs |-> EmptyDict]
  ELSE IF env = "no_separator" THEN [raised |-> FALSE, subfigs |-> EmptyDict]
  ELSE IF env = "nonzero" THEN [raised |-> FALSE, subfigs |-> EmptyDict]
  ELSE IF env = "no_panels" THEN [raised |-> FALSE, subfigs |-> EmptyDict]
  ELSE IF env = "timeout" THEN [raised |-> FALSE, subfigs |-> EmptyDict]
  ELSE IF env = "failed" THEN [raised |-> FALSE, subfigs |-> EmptyDict]
  ELSE [raised |-> FALSE, subfigs |-> CropPanels(count, figure_num, use_numbers)]

\* is_available, lines 229-231
IsAvailable == enabled

(***************************************************************************)
(* Updates of one record of figure_map.                                    *)
(***************************************************************************)
\* the flag left as it is
SetAttemptedForgotten(fm, n) == fm

SetAttempted(fm, n) == [fm EXCEPT ![n].split_attempted = TRUE]
SetSubfigures(fm, n, subfigs) == [fm EXCEPT ![n].subfigures = subfigs]
Called(calls, n) == [calls EXCEPT ![n] = @ + 1]

(***************************************************************************)
(* SubfigureAnalyzer.ensure_subfigures_split, lines 20-80.  The result     *)
(* carries the new figure_map, whether split was invoked, and how the call *)
(* ended: "ok" with the returned dict, or the exception that left it.      *)
(***************************************************************************)
EnsureSubfiguresSplit(fm, fig_num, env, count) ==
  IF fig_num \notin DOMAIN fm
    THEN [fm |-> fm, called |-> FALSE, kind |-> "ValueError_figure_not_exist",
          value |-> EmptyDict]
  ELSE IF IsNone(fm[fig_num])
    THEN [fm |-> fm, called |-> FALSE, kind |-> "TypeError", value |-> EmptyDict]
  ELSE IF fm[fig_num].subfigures # EmptyDict
    THEN [fm |-> fm, called |-> FALSE, kind |-> "ok",
          value |-> fm[fig_num].subfigures]
  ELSE IF ~fm[fig_num].split_attempted
    THEN IF ~enabled
           THEN [fm |-> SetAttempted(fm, fig_num), called |-> FALSE,
                 kind |-> "ok", value |-> EmptyDict]
         ELSE LET r == Split(env, count, fig_num, TRUE)
              IN IF r.raised
                   THEN [fm |-> SetAttempted(fm, fig_num), called |-> TRUE,
                         kind |-> "ok", value |-> EmptyDict]
                 ELSE IF r.subfigs # EmptyDict
                   THEN [fm |-> SetAttempted(SetSubfigures(fm, fig_num, r.subfigs), fig_num),
                         called |-> TRUE, kind |-> "ok", value |-> r.subfigs]
                 ELSE [fm |-> SetAttempted(fm, fig_num), called |-> TRUE,
                       kind |-> "ok", value |-> EmptyDict]
  ELSE [fm |-> fm, called |-> FALSE, kind |-> "ok",
        value |-> fm[fig_num].subfigures]

\* the figure numbers and labels that requests name
ReqNums == 1..(LifeFig + 1)
ReqSubs == {"a"}
ReqLabels == {"a", "1"}
Counts == 1..MaxPanels

Idle == \A q \in Generators : gen[q].pc = "idle"

\* env: what the splitter did when the request invoked it
Finish(op, fig_num, sub, env, called, kind, value) ==
  [op |-> op, fig |-> fig_num, sub |-> sub, env |-> IF called THEN env ELSE "-",
   called |-> called, kind |-> kind, value |-> value]

\* the request as an action: ensure_subfigures_split called on its own
\* (IntentRouter._handle_subfigure_report, line 288)
EnsureRequest(fig_num, env, count) ==
  LET e == EnsureSubfiguresSplit(figure_map, fig_num, env, count)
  IN /\ Idle
     /\ figure_map' = e.fm
     /\ splitCalls' = IF e.called THEN Called(splitCalls, fig_num) ELSE splitCalls
     /\ last' = Finish("ensure_subfigures_split", fig_num, NoSub, env, e.called,
                       e.kind, e.value)
     /\ UNCHANGED <<doc, texts, all_images, raised, gen>>

\* analyze_subfigure, lines 82-132, up to the language-model calls
AnalyzeSubfigure(fig_num, subfig_label, env, count) ==
  LET e == EnsureSubfiguresSplit(figure_map, fig_num, env, count)
      kind == IF e.kind # "ok" THEN e.kind
              ELSE IF e.value = EmptyDict \/ subfig_label \notin DOMAIN e.value
                THEN "ValueError_subfigure_not_exist"
              ELSE "ok"
  IN /\ Idle
     /\ figure_map' = e.fm
     /\ splitCalls' = IF e.called THEN Called(splitCalls, fig_num) ELSE splitCalls
     /\ last' = Finish("analyze_subfigure", fig_num, subfig_label, env, e.called, kind,
                       IF kind = "ok" THEN e.value[subfig_label] ELSE EmptyDict)
     /\ UNCHANGED <<doc, texts, all_images, raised, gen>>

\* analyze_all_subfigures, lines 134-151: the nested analyze_subfigure calls
\* find the subfigures already there and return at line 31.
AnalyzeAllSubfigures(fig_num, env, count) ==
  LET e == EnsureSubfiguresSplit(figure_map, fig_num, env, count)
  IN /\ Idle
     /\ figure_map' = e.fm
     /\ splitCalls' = IF e.called THEN Called(splitCalls, fig_num) ELSE splitCalls
     /\ last' = Finish("analyze_all_subfigures", fig_num, NoSub, env, e.called,
                       e.kind, DOMAIN e.value)
     /\ UNCHANGED <<doc, texts, all_images, raised, gen>>

(***************************************************************************)
(* SmartAgent.auto_split_all_figures, lines 630-669.  figure_map is filled *)
(* in ascending key order (the fallback numbers lie above the cited ones), *)
(* so the first five items are the five smallest keys.                     *)
(***************************************************************************)
FirstItems(fm, k) ==
  {n \in DOMAIN fm : Cardinality({m \in DOMAIN fm : m < n}) < k}

AutoSplitOne(fm, n, env, count) ==
  IF IsNone(fm[n]) \/ fm[n].split_attempted THEN [fm |-> fm, called |-> FALSE]
  ELSE LET r == Split(env, count, n, TRUE)
       IN IF r.raised THEN [fm |-> SetAttempted(fm, n), called |-> TRUE]
          ELSE IF r.subfigs # EmptyDict
            THEN [fm |-> SetAttempted(SetSubfigures(fm, n, r.subfigs), n), called |-> TRUE]
          ELSE [fm |-> SetAttempted(fm, n), called |-> TRUE]

AutoSplitAllFigures(envs, count) ==
  LET items == FirstItems(figure_map, AutoSplitLimit)
      one(n) == AutoSplitOne(figure_map, n, envs[n], count)
  IN /\ Idle
     /\ figure_map # EmptyDict
     /\ IF ~IsAvailable THEN UNCHANGED <<figure_map, splitCalls>>
        ELSE /\ figure_map' = [n \in DOMAIN figure_map |->
                                 IF n \in items THEN one(n).fm[n] ELSE figure_map[n]]
             /\ splitCalls' = [n \in DOMAIN figure_map |->
                                 IF n \in items /\ one(n).called
                                   THEN splitCalls[n] + 1 ELSE splitCalls[n]]
     /\ last' = Finish("auto_split_all_figures", NoFig, NoSub, "-", FALSE, "ok", EmptyDict)
     /\ UNCHANGED <<doc, texts, all_images, raised, gen>>

(***************************************************************************)
(* SmartAgent.query, lines 218-397: a generator.  Each action runs it from *)
(* one yield to the next one that matters.                                 *)
(***************************************************************************)
\* lines 221-226: called; suspended at the first "thinking" event
QueryCall(q, fig_num, sub) ==
  /\ gen[q].pc = "idle"
  /\ IF texts = << >>
       THEN /\ last' = Finish("query", fig_num, sub, "-", FALSE, "error_no_pdf", EmptyDict)
            /\ UNCHANGED gen
     ELSE IF fig_num = NoFig
       THEN /\ last' = Finish("query", fig_num, sub, "-", FALSE, "text_answer", EmptyDict)
            /\ UNCHANGED gen
     ELSE /\ gen' = [gen EXCEPT ![q] = [pc |-> "thinking", fig |-> fig_num,
                                        sub |-> sub, env |-> "-"]]
          /\ last' = Finish("query", fig_num, sub, "-", FALSE, "running", EmptyDict)
  /\ UNCHANGED <<doc, texts, all_images, figure_map, raised, splitCalls>>

\* lines 229-245, 278-285, 395-397: look the figure up, decide on a split
QueryLookup(q) ==
  LET n == gen[q].fig
      sub == gen[q].sub
  IN /\ gen[q].pc = "thinking"
     /\ IF n \in DOMAIN figure_map /\ ~IsNone(figure_map[n])
          THEN IF ~figure_map[n].split_attempted
                 THEN IF IsAvailable
                        THEN /\ gen' = [gen EXCEPT ![q].pc = "detect"]
                             /\ UNCHANGED <<figure_map, last>>
                      ELSE /\ gen' = [gen EXCEPT ![q].pc = "select"]
                           /\ figure_map' = IF sub # NoSub THEN SetAttempted(figure_map, n)
                                            ELSE figure_map
                           /\ UNCHANGED last
               ELSE /\ gen' = [gen EXCEPT ![q].pc = "select"]
                    /\ UNCHANGED <<figure_map, last>>
        ELSE /\ gen' = [gen EXCEPT ![q] = IdleGen]
             /\ last' = Finish("query", n, sub, "-", FALSE, "error_not_found", EmptyDict)
             /\ UNCHANGED figure_map
     /\ UNCHANGED <<doc, texts, all_images, raised, splitCalls>>

\* lines 247-255, 275-276 and 287-295, 313-315: the split itself
QuerySplit(q, env, count) ==
  LET n == gen[q].fig
      sub == gen[q].sub
      r == Split(env, count, n, FALSE)
  IN /\ gen[q].pc = "detect"
     /\ splitCalls' = Called(splitCalls, n)
     /\ IF ~r.raised
          THEN /\ figure_map' = SetAttempted(SetSubfigures(figure_map, n, r.subfigs), n)
               /\ gen' = [gen EXCEPT ![q].pc = "select", ![q].env = env]
        ELSE IF sub # NoSub
          THEN /\ UNCHANGED figure_map
               /\ gen' = [gen EXCEPT ![q].pc = "failed", ![q].env = env]
        ELSE /\ figure_map' = SetAttempted(figure_map, n)
             /\ gen' = [gen EXCEPT ![q].pc = "select", ![q].env = env]
     /\ UNCHANGED <<doc, texts, all_images, raised, last>>

\* line 277: resumed after the "split failed" event
QueryFailed(q) ==
  /\ gen[q].pc = "failed"
  /\ figure_map' = SetAttempted(figure_map, gen[q].fig)
  /\ gen' = [gen EXCEPT ![q].pc = "select"]
  /\ UNCHANGED <<doc, texts, all_images, raised, splitCalls, last>>

\* lines 317-347: pick the subfigure image or the whole figure, emit it
QuerySelect(q) ==
  LET n == gen[q].fig
      sub == gen[q].sub
      fig_data == figure_map[n]
      use_sub == sub # NoSub /\ sub \in DOMAIN fig_data.subfigures
  IN /\ gen[q].pc = "select"
     /\ last' = Finish("query", n, sub, gen[q].env, gen[q].env # "-",
                       IF use_sub THEN "subfigure" ELSE "figure",
                       IF use_sub THEN fig_data.subfigures[sub] ELSE fig_data.path)
     /\ gen' = [gen EXCEPT ![q] = IdleGen]
     /\ UNCHANGED <<doc, texts, all_images, figure_map, raised, splitCalls>>

(***************************************************************************)
(* The agent under a sequential series of requests: a request starts only  *)
(* when no query generator is suspended.                                   *)
(***************************************************************************)
\* one page, every image large enough for the fallback pass
LifeDocs == DocsOf(1, LifeImages, LifeFig, {80000})

Init == InitAgent /\ doc = NoDoc /\ ParserIdle /\ ExtractorIdle /\ LoadersIdle

Load ==
  /\ \E d \in LifeDocs : Idle /\ LoadPdf(d) /\ doc' = d
  /\ UNCHANGED <<parserVars, extractorVars, loaderVars>>

Ensure ==
  /\ \E n \in ReqNums, env \in SplitEnv, c \in Counts : EnsureRequest(n, env, c)
  /\ UNCHANGED <<parserVars, extractorVars, loaderVars>>

Analyze ==
  /\ \E n \in ReqNums, l \in ReqLabels, env \in SplitEnv, c \in Counts :
        AnalyzeSubfigure(n, l, env, c)
  /\ UNCHANGED <<parserVars, extractorVars, loaderVars>>

AnalyzeAll ==
  /\ \E n \in ReqNums, env \in SplitEnv, c \in Counts : AnalyzeAllSubfigures(n, env, c)
  /\ UNCHANGED <<parserVars, extractorVars, loaderVars>>

AutoSplit ==
  /\ \E envs \in [DOMAIN figure_map -> SplitEnv], c \in Counts :
        AutoSplitAllFigures(envs, c)
  /\ UNCHANGED <<parserVars, extractorVars, loaderVars>>

\* the generator a sequential caller drives
SeqGenerators == {"q1"}

QueryStart ==
  /\ Idle
  /\ \E q \in SeqGenerators, n \in ReqNums \cup {NoFig}, s \in ReqSubs \cup {NoSub} :
        QueryCall(q, n, s)
  /\ UNCHANGED <<parserVars, extractorVars, loaderVars>>

QueryStep ==
  /\ \E q \in SeqGenerators :
        \/ QueryLookup(q)
        \/ \E env \in SplitEnv, c \in Counts : QuerySplit(q, env, c)
        \/ QueryFailed(q)
        \/ QuerySelect(q)
  /\ UNCHANGED <<parserVars, extractorVars, loaderVars>>

Next == Load \/ Ensure \/ Analyze \/ AnalyzeAll \/ AutoSplit \/ QueryStart \/ QueryStep

Spec == Init /\ [][Next]_vars

(***************************************************************************)
(* C2: within one loaded document and under sequential requests, a         *)
(* record's split_attempted is never set back to false and                 *)
(* SubfigureSplitter.split is invoked at most once for the record, whether *)
(* the first split returned subfigures, returned nothing or raised.        *)
(***************************************************************************)
C2_SplitOnce ==
  /\ [](\A n \in DOMAIN splitCalls : splitCalls[n] <= 1)
  /\ [][last'.op # "load_pdf" =>
          \A n \in Bound(figure_map) :
             figure_map[n].split_attempted =>
               n \in Bound(figure_map') /\ figure_map'[n].split_attempted]_vars

RequestOps == {"ensure_subfigures_split", "analyze_subfigure", "analyze_all_subfigures"}

\* a record whose only split gave nothing was asked for again: no new split
C2_Witness ==
  /\ last.op \in RequestOps \cup {"query"}
  /\ last.kind # "running"
  /\ ~last.called
  /\ last.fig \in Bound(figure_map)
  /\ figure_map[last.fig].split_attempted
  /\ figure_map[last.fig].subfigures = EmptyDict
  /\ splitCalls[last.fig] = 1

(***************************************************************************)
(* C3: a subfigure-level request whose splitter run times out, exits       *)
(* non-zero, fails, is not installed or raises ends as "no subfigures      *)
(* detected": the record's subfigures stay empty, split_attempted is true, *)
(* and the request returns what it returns for a figure without panels.    *)
(***************************************************************************)
SubfigureLevel(r) ==
  \/ r.op \in RequestOps
  \/ r.op = "query" /\ r.sub # NoSub /\ r.kind # "running"

\* what each request returns for a figure without panels
NoSubfigureResult(r, fm) ==
  CASE r.op = "ensure_subfigures_split" -> r.kind = "ok" /\ r.value = EmptyDict
    [] r.op = "analyze_subfigure" -> r.kind = "ValueError_subfigure_not_exist"
    [] r.op = "analyze_all_subfigures" -> r.kind = "ok" /\ r.value = {}
    [] r.op = "query" -> r.kind = "figure" /\ r.value = fm[r.fig].path

C3_FailureIsNoSubfigures ==
  (SubfigureLevel(last) /\ last.called /\ last.env \in FailEnv) =>
     /\ last.fig \in Bound(figure_map)
     /\ figure_map[last.fig].subfigures = EmptyDict
     /\ figure_map[last.fig].split_attempted
     /\ NoSubfigureResult(last, figure_map)

C3_Witness ==
  /\ last.op = "query" /\ last.sub # NoSub /\ last.kind = "figure"
  /\ last.called /\ last.env = "timeout"
  /\ figure_map[last.fig].split_attempted

(***************************************************************************)
(* C4: a subfigure request for a figure number without a FigureRecord ends *)
(* in the "figure n does not exist" condition, invokes no splitter and     *)
(* leaves figure_map unchanged.                                            *)
(***************************************************************************)
C4_NotFound ==
  [][(last' # last /\ last'.op \in RequestOps /\ last'.fig \notin Bound(figure_map)) =>
        /\ last'.kind = "ValueError_figure_not_exist"
        /\ ~last'.called
        /\ figure_map' = figure_map]_vars

(***************************************************************************)
(* C5 as claimed: after a matching pass the map has an entry for a cited   *)
(* number only if an image was bound to it, the map is empty when the      *)
(* document has no image, and the pass does not raise.                     *)
(***************************************************************************)
C5_EntryOnlyIfBound ==
  last.op = "load_pdf" =>
     /\ \A n \in DOMAIN figure_map : ~IsNone(figure_map[n])
     /\ all_images = << >> => figure_map = EmptyDict
     /\ ~raised

(***************************************************************************)
(* C5 amended: after a matching pass every cited number has an entry; the  *)
(* entry is a record bound to an extracted image of the number's window,   *)
(* or None exactly when every image of the window is bound to a lower      *)
(* cited number; without images every entry is None, without images and    *)
(* citations the map is empty; the pass does not raise.                    *)
(***************************************************************************)
ImagesOn(pages) == {i \in 1..Len(all_images) : all_images[i].page \in pages}
Window(n) == SearchPages(MinOf(FigurePages(texts)[n]))

C5_RecordOnlyIfBound ==
  last.op = "load_pdf" =>
     /\ ~raised
     /\ CitedNums(texts) \subseteq DOMAIN figure_map
     /\ \A n \in Bound(figure_map) :
          \E i \in 1..Len(all_images) :
             /\ all_images[i].path = figure_map[n].path
             /\ all_images[i].page = figure_map[n].page
             /\ n \in CitedNums(texts) => i \in ImagesOn(Window(n))
     /\ \A n \in CitedNums(texts) :
          IsNone(figure_map[n]) <=>
            \A i \in ImagesOn(Window(n)) :
               \E m \in Bound(figure_map) :
                  m < n /\ m \in CitedNums(texts) /\ figure_map[m].path = all_images[i].path
     /\ all_images = << >> =>
          Bound(figure_map) = {} /\ DOMAIN figure_map = CitedNums(texts)
     /\ (all_images = << >> /\ CitedNums(texts) = {}) => figure_map = EmptyDict

\* a cited number left without image next to one that got an image
C5_Witness ==
  /\ last.op = "load_pdf"
  /\ \E n \in DOMAIN figure_map : IsNone(figure_map[n])
  /\ Bound(figure_map) # {}

(***************************************************************************)
(* ImprovedPDFParser._merge_nearby_bboxes: rectangles of one page are      *)
(* merged until no two of the list are nearby.  A rectangle is a record    *)
(* x0, y0, x1, y1; the field src, which the code does not have, names the  *)
(* positions of the input rectangles a rectangle has absorbed.             *)
(***************************************************************************)
MaxRects == 3

\* page coordinates, side lengths of the image rectangles, thresholds: two
\* rectangles of a page lie up to 2 apart horizontally, up to 1 vertically
XCoords == 0..4
YCoords == 0..3
Sides == {1, 2}
Thresholds == {0, 1, 2}

Rect(x0, y0, x1, y1) == [x0 |-> x0, y0 |-> y0, x1 |-> x1, y1 |-> y1]

\* the image rectangles of a page: x1 > x0 and y1 > y0
ImageRects ==
  {r \in {Rect(x, y, x + d, y + d) : x \in XCoords, y \in YCoords, d \in Sides} :
     r.x1 \in XCoords /\ r.y1 \in YCoords}

RectLists == SeqsUpTo(ImageRects, MaxRects)

Min2(a, b) == IF a <= b THEN a ELSE b
Max2(a, b) == IF a >= b THEN a ELSE b

IsNearbyShrinking(bbox1, bbox2, t) ==
  LET x_overlap == ~(bbox1.x1 - t < bbox2.x0 \/ bbox2.x1 - t < bbox1.x0)
      y_overlap == ~(bbox1.y1 - t < bbox2.y0 \/ bbox2.y1 - t < bbox1.y0)
  IN x_overlap /\ y_overlap

\* the test on the horizontal gap alone
IsNearbyHorizontal(bbox1, bbox2, t) ==
  ~(bbox1.x1 + t < bbox2.x0 \/ bbox2.x1 + t < bbox1.x0)

IsNearby(bbox1, bbox2, t) ==
  LET x_overlap == ~(bbox1.x1 + t < bbox2.x0 \/ bbox2.x1 + t < bbox1.x0)
      y_overlap == ~(bbox1.y1 + t < bbox2.y0 \/ bbox2.y1 + t < bbox1.y0)
  IN x_overlap /\ y_overlap

UnionRectKeepingCorner(current_bbox, bbox2) ==
  [x0 |-> current_bbox.x0,
   y0 |-> current_bbox.y0,
   x1 |-> Max2(current_bbox.x1, bbox2.x1),
   y1 |-> Max2(current_bbox.y1, bbox2.y1),
   src |-> current_bbox.src \cup bbox2.src]

\* fitz.Rect(min x0, min y0, max x1, max y1)
UnionRect(current_bbox, bbox2) ==
  [x0 |-> Min2(current_bbox.x0, bbox2.x0),
   y0 |-> Min2(current_bbox.y0, bbox2.y0),
   x1 |-> Max2(current_bbox.x1, bbox2.x1),
   y1 |-> Max2(current_bbox.y1, bbox2.y1),
   src |-> current_bbox.src \cup bbox2.src]

\* the inner loop over j in range(i + 1, len(merged)); s holds current_bbox,
\* used and changed
RECURSIVE MergeInner(_, _, _, _)
MergeInner(merged, t, j, s) ==
  IF j > Len(merged) THEN s
  ELSE IF j \in s.used THEN MergeInner(merged, t, j + 1, s)
  ELSE IF IsNearby(s.current_bbox, merged[j], t)
       THEN MergeInner(merged, t, j + 1,
                       [current_bbox |-> UnionRect(s.current_bbox, merged[j]),
                        used |-> s.used \cup {j},
                        changed |-> TRUE])
       ELSE MergeInner(merged, t, j + 1, s)

RECURSIVE MergePassPrepending(_, _, _, _)
MergePassPrepending(merged, t, i, s) ==
  IF i > Len(merged) THEN s
  ELSE IF i \in s.used THEN MergePassPrepending(merged, t, i + 1, s)
  ELSE LET inner == MergeInner(merged, t, i + 1,
                               [current_bbox |-> merged[i],
                                used |-> s.used,
                                changed |-> s.changed])
       IN MergePassPrepending(merged, t, i + 1,
                    [new_merged |-> <<inner.current_bbox>> \o s.new_merged,
                     used |-> inner.used \cup {i},
                     changed |-> inner.changed])

\* the pass that leaves an absorbed rectangle in the list
RECURSIVE MergePassKeepingAbsorbed(_, _, _, _)
MergePassKeepingAbsorbed(merged, t, i, s) ==
  IF i > Len(merged) THEN s
  ELSE LET inner == MergeInner(merged, t, i + 1,
                               [current_bbox |-> merged[i],
                                used |-> {},
                                changed |-> s.changed])
       IN MergePassKeepingAbsorbed(merged, t, i + 1,
                    [new_merged |-> Append(s.new_merged, inner.current_bbox),
                     used |-> {},
                     changed |-> inner.changed])

\* one pass of the outer loop over i; s holds new_merged, used and changed
RECURSIVE MergePass(_, _, _, _)
MergePass(merged, t, i, s) ==
  IF i > Len(merged) THEN s
  ELSE IF i \in s.used THEN MergePass(merged, t, i + 1, s)
  ELSE LET inner == MergeInner(merged, t, i + 1,
                               [current_bbox |-> merged[i],
                                used |-> s.used,
                                changed |-> s.changed])
       IN MergePass(merged, t, i + 1,
                    [new_merged |-> Append(s.new_merged, inner.current_bbox),
                     used |-> inner.used \cup {i},
                     changed |-> inner.changed])

MergeLoopOnce(merged, t) ==
  MergePass(merged, t, 1,
            [new_merged |-> << >>, used |-> {}, changed |-> FALSE]).new_merged

\* while changed: one more pass
RECURSIVE MergeLoop(_, _)
MergeLoop(merged, t) ==
  LET pass == MergePass(merged, t, 1,
                        [new_merged |-> << >>, used |-> {}, changed |-> FALSE])
  IN IF pass.changed THEN MergeLoop(pass.new_merged, t) ELSE pass.new_merged

\* merged = [bbox for bbox in bboxes], each rectangle tagged with its position
Tagged(bbs) ==
  [i \in DOMAIN bbs |->
     [x0 |-> bbs[i].x0, y0 |-> bbs[i].y0, x1 |-> bbs[i].x1, y1 |-> bbs[i].y1,
      src |-> {i}]]

\* the rectangles of a returned list, without the tags
Boxes(bbs) == [i \in DOMAIN bbs |-> Rect(bbs[i].x0, bbs[i].y0, bbs[i].x1, bbs[i].y1)]

MergeNearbyBboxes(bbs, t) ==
  IF bbs = << >> THEN << >> ELSE MergeLoop(Tagged(bbs), t)

\* a page's image rectangles and a threshold are handed to the merge
InitMerge ==
  /\ InitAgent /\ doc = NoDoc /\ ExtractorIdle /\ LoadersIdle
  /\ image_bboxes \in RectLists
  /\ threshold \in Thresholds
  /\ merged_bboxes = << >>
  /\ other_threshold = 0
  /\ other_bboxes = << >>
  /\ mergeStep = "input"
  /\ PassIdle
  /\ image_groups = << >>
  /\ ParseIdle

\* merged_bboxes = self._merge_nearby_bboxes(image_bboxes, threshold)
MergeCall ==
  /\ mergeStep = "input"
  /\ merged_bboxes' = MergeNearbyBboxes(image_bboxes, threshold)
  /\ mergeStep' = "merged"
  /\ UNCHANGED <<image_bboxes, threshold, other_threshold, other_bboxes>>
  /\ UNCHANGED <<agentVars, extractorVars, loaderVars, passVars, image_groups, parseVars>>

\* the returned list is handed to the merge again, at the same threshold
MergeAgain ==
  /\ mergeStep = "merged"
  /\ image_bboxes' = Boxes(merged_bboxes)
  /\ merged_bboxes' = MergeNearbyBboxes(Boxes(merged_bboxes), threshold)
  /\ mergeStep' = "again"
  /\ UNCHANGED <<threshold, other_threshold, other_bboxes>>
  /\ UNCHANGED <<agentVars, extractorVars, loaderVars, passVars, image_groups, parseVars>>

\* the same rectangles are merged at another threshold
MergeAtThreshold(t) ==
  /\ mergeStep = "merged"
  /\ other_threshold' = t
  /\ other_bboxes' = MergeNearbyBboxes(image_bboxes, t)
  /\ mergeStep' = "compared"
  /\ UNCHANGED <<image_bboxes, threshold, merged_bboxes>>
  /\ UNCHANGED <<agentVars, extractorVars, loaderVars, passVars, image_groups, parseVars>>

MergeCompare == \E t \in Thresholds : MergeAtThreshold(t)

NextMerge == MergeCall \/ MergeAgain \/ MergeCompare

SpecMerge == InitMerge /\ [][NextMerge]_vars

(***************************************************************************)
(* C6: in the list _merge_nearby_bboxes returns, no two rectangles are     *)
(* nearby at the threshold that was used.                                  *)
(***************************************************************************)
C6_NoTwoNearby ==
  mergeStep = "merged" =>
     \A i, j \in DOMAIN merged_bboxes :
        i # j => ~IsNearby(merged_bboxes[i], merged_bboxes[j], threshold)

\* rectangles were merged and two rectangles remain
C6_Witness ==
  /\ mergeStep = "merged"
  /\ Len(merged_bboxes) >= 2
  /\ Len(merged_bboxes) < Len(image_bboxes)

(***************************************************************************)
(* C7: merging the returned list again at the same threshold returns the   *)
(* same list.                                                              *)
(***************************************************************************)
C7_Idempotent ==
  mergeStep = "again" => Boxes(merged_bboxes) = image_bboxes

\* the list merged again holds two different rectangles, one of them a union
C7_Witness ==
  /\ mergeStep = "again"
  /\ Len(merged_bboxes) >= 2
  /\ merged_bboxes[1] # merged_bboxes[2]
  /\ \E i \in DOMAIN image_bboxes : image_bboxes[i] \notin ImageRects

(***************************************************************************)
(* C8: for one list of rectangles, the run at the larger threshold returns *)
(* at most as many rectangles as the run at the smaller threshold.         *)
(***************************************************************************)
C8_Monotone ==
  mergeStep = "compared" =>
     /\ threshold < other_threshold => Len(other_bboxes) <= Len(merged_bboxes)
     /\ other_threshold < threshold => Len(merged_bboxes) <= Len(other_bboxes)

\* the larger threshold merged rectangles the smaller one kept apart
C8_Witness ==
  /\ mergeStep = "compared"
  /\ threshold < other_threshold
  /\ Len(other_bboxes) < Len(merged_bboxes)

(***************************************************************************)
(* C9: every returned rectangle contains each input rectangle it absorbed  *)
(* and is the smallest rectangle that contains all of them; every input    *)
(* rectangle is absorbed into exactly one returned rectangle.              *)
(***************************************************************************)
Contains(outer, inner) ==
  /\ outer.x0 <= inner.x0 /\ outer.y0 <= inner.y0
  /\ inner.x1 <= outer.x1 /\ inner.y1 <= outer.y1

C9_BoundingRect ==
  mergeStep = "merged" =>
     /\ \A k \in DOMAIN merged_bboxes :
          LET out == merged_bboxes[k]
              members == {image_bboxes[i] : i \in out.src}
          IN /\ out.src # {}
             /\ out.src \subseteq DOMAIN image_bboxes
             /\ \A m \in members : Contains(out, m)
             /\ out.x0 = MinOf({m.x0 : m \in members})
             /\ out.y0 = MinOf({m.y0 : m \in members})
             /\ out.x1 = MaxOf({m.x1 : m \in members})
             /\ out.y1 = MaxOf({m.y1 : m \in members})
     /\ \A i \in DOMAIN image_bboxes :
          Cardinality({k \in DOMAIN merged_bboxes : i \in merged_bboxes[k].src}) = 1

\* a returned rectangle absorbed three input rectangles, one lying left of
\* and above the first
C9_Witness ==
  /\ mergeStep = "merged"
  /\ \E k \in DOMAIN merged_bboxes :
        /\ Cardinality(merged_bboxes[k].src) = 3
        /\ merged_bboxes[k].x0 < image_bboxes[MinOf(merged_bboxes[k].src)].x0
        /\ merged_bboxes[k].y0 < image_bboxes[MinOf(merged_bboxes[k].src)].y0

(***************************************************************************)
(* FigureReferenceExtractor.extract_references.  A text is a sequence of   *)
(* characters; a pattern of PATTERNS is a sequence of items that the       *)
(* matcher below tries as re does: greedy, backtracking, leftmost.         *)
(***************************************************************************)
MaxChunks == 3

LowerCase == <<"a", "b", "c", "d", "e", "f", "g", "h", "i", "j", "k", "l", "m",
               "n", "o", "p", "q", "r", "s", "t", "u", "v", "w", "x", "y", "z">>
UpperCase == <<"A", "B", "C", "D", "E", "F", "G", "H", "I", "J", "K", "L", "M",
               "N", "O", "P", "Q", "R", "S", "T", "U", "V", "W", "X", "Y", "Z">>

\* what re.IGNORECASE compares: the lower-case form of a character
LowerOf ==
  [c \in {UpperCase[i] : i \in DOMAIN UpperCase} |->
     LowerCase[CHOOSE i \in DOMAIN UpperCase : UpperCase[i] = c]]

Fold(c) == IF c \in DOMAIN LowerOf THEN LowerOf[c] ELSE c

Digits == {"0", "1", "2", "3", "4", "5", "6", "7", "8", "9"}
Whitespace == {" "}
\* [a-z]
LowerLetters == {LowerCase[i] : i \in DOMAIN LowerCase}

\* int(match.group(1))
DigitValue(c) ==
  CASE c = "0" -> 0 [] c = "1" -> 1 [] c = "2" -> 2 [] c = "3" -> 3
    [] c = "4" -> 4 [] c = "5" -> 5 [] c = "6" -> 6 [] c = "7" -> 7
    [] c = "8" -> 8 [] c = "9" -> 9

RECURSIVE ToInt(_)
ToInt(ds) ==
  IF ds = << >> THEN 0
  ELSE 10 * ToInt(SubSeq(ds, 1, Len(ds) - 1)) + DigitValue(ds[Len(ds)])

\* the quantifier bound of + and *
Unbounded == 99

\* pattern items: one character of a set, repeated lo..hi times, captured
\* as group grp (0: not captured); an alternation of words; a negative
\* lookahead
Item(set, lo, hi, grp) == [kind |-> "set", set |-> set, lo |-> lo, hi |-> hi, grp |-> grp]
Lit(c) == Item({c}, 1, 1, 0)
Opt(set) == Item(set, 0, 1, 0)
Spaces0 == Item(Whitespace, 0, Unbounded, 0)
Spaces1 == Item(Whitespace, 1, Unbounded, 0)
Number == Item(Digits, 1, Unbounded, 1)
Letter == Item(LowerLetters, 1, 1, 2)
Alt(words) == [kind |-> "alt", words |-> words]
NotAhead(items) == [kind |-> "not", items |-> items]

\* figure?  and  fig\.?
FigureWord == <<Lit("f"), Lit("i"), Lit("g"), Lit("u"), Lit("r"), Opt({"e"})>>
FigureFull == <<Lit("f"), Lit("i"), Lit("g"), Lit("u"), Lit("r"), Lit("e")>>
FigWord == <<Lit("f"), Lit("i"), Lit("g"), Opt({"."})>>
TuWord == <<Lit("图")>>
\* (?!\s*[a-z])
NoLetterAhead == NotAhead(<<Spaces0, Item(LowerLetters, 1, 1, 0)>>)
\* \s*[\.\(]?\s*([a-z])\s*[\)]?
SubfigureTail(open) == <<Spaces0, Opt(open), Spaces0, Letter, Spaces0, Opt({")"})>>

PATTERNS == <<
  [items |-> FigureWord \o <<Spaces1, Number>> \o SubfigureTail({".", "("}),
   has_subfigure |-> TRUE],
  [items |-> FigWord \o <<Spaces1, Number>> \o SubfigureTail({".", "("}),
   has_subfigure |-> TRUE],
  [items |-> TuWord \o <<Spaces0, Number>> \o SubfigureTail({"-", ".", "("}),
   has_subfigure |-> TRUE],
  [items |-> <<Alt(<<<<"s", "e", "e">>, <<"i", "n">>, <<"a", "s">>,
                     <<"f", "r", "o", "m">>, <<"o", "f">>>>), Spaces1>>
             \o FigureWord \o <<Spaces1, Number, NoLetterAhead>>,
   has_subfigure |-> FALSE],
  [items |-> FigureWord \o <<Spaces1, Number, NoLetterAhead>>,
   has_subfigure |-> FALSE],
  [items |-> FigureWord \o <<Spaces1, Number, Spaces0, Item({":", "."}, 1, 1, 0), Spaces0>>,
   has_subfigure |-> FALSE],
  [items |-> FigureFull \o <<Spaces1, Number, NoLetterAhead>>,
   has_subfigure |-> FALSE],
  [items |-> <<Item({"(", "["}, 1, 1, 0)>> \o FigureFull
             \o <<Spaces1, Number, Item({")", "]"}, 1, 1, 0)>>,
   has_subfigure |-> FALSE],
  [items |-> FigWord \o <<Spaces1, Number, NoLetterAhead>>,
   has_subfigure |-> FALSE],
  [items |-> TuWord \o <<Spaces0, Number, NoLetterAhead>>,
   has_subfigure |-> FALSE] >>

NoMatch == [ok |-> FALSE]
NoGroups == [g1 |-> << >>, g2 |-> << >>]

\* the characters from pos on that belong to set, at most hi of them
RECURSIVE RunLength(_, _, _, _)
RunLength(txt, pos, set, hi) ==
  IF hi = 0 \/ pos > Len(txt) \/ Fold(txt[pos]) \notin set THEN 0
  ELSE 1 + RunLength(txt, pos + 1, set, hi - 1)

\* whether the word stands at pos
WordAt(txt, pos, word) ==
  /\ pos + Len(word) - 1 <= Len(txt)
  /\ \A i \in DOMAIN word : Fold(txt[pos + i - 1]) = word[i]

Capture(groups, grp, chars) ==
  IF grp = 1 THEN [groups EXCEPT !.g1 = chars]
  ELSE IF grp = 2 THEN [groups EXCEPT !.g2 = chars]
  ELSE groups

RECURSIVE MatchHere(_, _, _, _, _)
RECURSIVE TryCounts(_, _, _, _, _, _)
RECURSIVE TryWords(_, _, _, _, _, _)

\* items k.. of a pattern matched at pos: the first match in re's order
MatchHere(items, k, txt, pos, groups) ==
  IF k > Len(items) THEN [ok |-> TRUE, end |-> pos, groups |-> groups]
  ELSE LET item == items[k]
       IN CASE item.kind = "set" ->
                 TryCounts(items, k, txt, pos,
                           RunLength(txt, pos, item.set, item.hi), groups)
            [] item.kind = "alt" -> TryWords(items, k, txt, pos, 1, groups)
            [] item.kind = "not" ->
                 IF MatchHere(item.items, 1, txt, pos, groups).ok THEN NoMatch
                 ELSE MatchHere(items, k + 1, txt, pos, groups)

\* a greedy quantifier: the longest run first, then shorter ones
TryCounts(items, k, txt, pos, count, groups) ==
  IF count < items[k].lo THEN NoMatch
  ELSE LET rest == MatchHere(items, k + 1, txt, pos + count,
                             Capture(groups, items[k].grp,
                                     SubSeq(txt, pos, pos + count - 1)))
       IN IF rest.ok THEN rest
          ELSE TryCounts(items, k, txt, pos, count - 1, groups)

\* an alternation: the words in their order
TryWords(items, k, txt, pos, w, groups) ==
  IF w > Len(items[k].words) THEN NoMatch
  ELSE LET rest == IF WordAt(txt, pos, items[k].words[w])
                   THEN MatchHere(items, k + 1, txt,
                                  pos + Len(items[k].words[w]), groups)
                   ELSE NoMatch
       IN IF rest.ok THEN rest
          ELSE TryWords(items, k, txt, pos, w + 1, groups)

\* the subfigure of a match of no subfigure pattern
NoSubfigure == "None"

\* re.finditer(pattern, text, re.IGNORECASE), each match as the reference
\* the loop body appends; offsets count from 0.  No pattern matches the
\* empty string.
RECURSIVE FindIter(_, _, _)
FindIter(p, txt, pos) ==
  IF pos > Len(txt) THEN << >>
  ELSE LET m == MatchHere(PATTERNS[p].items, 1, txt, pos, NoGroups)
       IN IF m.ok
          THEN <<[figure |-> ToInt(m.groups.g1),
                  subfigure |-> IF PATTERNS[p].has_subfigure
                                THEN m.groups.g2[1] ELSE NoSubfigure,
                  start |-> pos - 1,
                  end |-> m.end - 1,
                  pattern |-> p]>> \o FindIter(p, txt, m.end)
          ELSE FindIter(p, txt, pos + 1)

\* the list references after the loop over PATTERNS
RECURSIVE ReferencesFrom(_, _)
ReferencesFrom(p, txt) ==
  IF p > Len(PATTERNS) THEN << >>
  ELSE FindIter(p, txt, 1) \o ReferencesFrom(p + 1, txt)

References(txt) == ReferencesFrom(1, txt)

RemoveAt(seq, i) == SubSeq(seq, 1, i - 1) \o SubSeq(seq, i + 1, Len(seq))

Unsorted(refs) == refs

\* sorted(references, key=lambda x: x["start"]): stable
RECURSIVE SortedByStart(_)
SortedByStart(refs) ==
  IF refs = << >> THEN << >>
  ELSE LET i == MinOf({k \in DOMAIN refs :
                         \A l \in DOMAIN refs :
                            /\ refs[k].start <= refs[l].start
                            /\ refs[l].start = refs[k].start => k <= l})
       IN <<refs[i]>> \o SortedByStart(RemoveAt(refs, i))

Key(ref) == <<ref.figure, ref.subfigure>>

\* the loop over the sorted references with the set seen
RECURSIVE Unique(_, _)
Unique(refs, seen) ==
  IF refs = << >> THEN << >>
  ELSE IF Key(Head(refs)) \notin seen
       THEN <<Head(refs)>> \o Unique(Tail(refs), seen \cup {Key(Head(refs))})
       ELSE Unique(Tail(refs), seen)

ExtractReferences(txt) == Unique(SortedByStart(References(txt)), {})

\* the mentions and separators a page text is built from:
\*   "Figure 3a", "Figure 3", "Fig. 3", "FIGURE 12", "(Figure 3)",
\*   "in Figure 3", "图3", ". ", " ", "a"
Chunks == {
  <<"F", "i", "g", "u", "r", "e", " ", "3", "a">>,
  <<"F", "i", "g", "u", "r", "e", " ", "3">>,
  <<"F", "i", "g", ".", " ", "3">>,
  <<"F", "I", "G", "U", "R", "E", " ", "1", "2">>,
  <<"(", "F", "i", "g", "u", "r", "e", " ", "3", ")">>,
  <<"i", "n", " ", "F", "i", "g", "u", "r", "e", " ", "3">>,
  <<"图", "3">>,
  <<".", " ">>,
  <<" ">>,
  <<"a">> }

RECURSIVE Concat(_)
Concat(parts) == IF parts = << >> THEN << >> ELSE Head(parts) \o Concat(Tail(parts))

\* page texts: up to MaxChunks chunks in a row
Texts == {Concat(parts) : parts \in SeqsUpTo(Chunks, MaxChunks)}

InitRefs ==
  /\ InitAgent /\ doc = NoDoc /\ ParserIdle /\ LoadersIdle
  /\ text \in Texts
  /\ unique_refs = << >>
  /\ extractStep = "input"

\* unique_refs = FigureReferenceExtractor.extract_references(text)
Extract ==
  /\ extractStep = "input"
  /\ unique_refs' = ExtractReferences(text)
  /\ extractStep' = "extracted"
  /\ UNCHANGED text
  /\ UNCHANGED <<agentVars, parserVars, loaderVars>>

NextRefs == Extract

SpecRefs == InitRefs /\ [][NextRefs]_vars

(***************************************************************************)
(* C10: extract_references returns at most one reference per (figure,      *)
(* subfigure) pair and one for every pair some pattern matched; the        *)
(* reference kept is a match with the smallest start among all matches of  *)
(* its pair; the list is in non-decreasing order of start.                 *)
(***************************************************************************)
C10_DedupEarliestOrdered ==
  extractStep = "extracted" =>
     LET references == References(text)
     IN /\ \A i, j \in DOMAIN unique_refs :
             i # j => Key(unique_refs[i]) # Key(unique_refs[j])
        /\ \A k \in DOMAIN references :
             \E i \in DOMAIN unique_refs : Key(unique_refs[i]) = Key(references[k])
        /\ \A i \in DOMAIN unique_refs :
             /\ \E k \in DOMAIN references : references[k] = unique_refs[i]
             /\ \A k \in DOMAIN references :
                   Key(references[k]) = Key(unique_refs[i])
                      => unique_refs[i].start <= references[k].start
        /\ \A i, j \in DOMAIN unique_refs :
             i < j => unique_refs[i].start <= unique_refs[j].start

\* a subfigure pair is mentioned twice, and for some pair the match the
\* patterns found first starts later than the reference that was kept
C10_Witness ==
  /\ extractStep = "extracted"
  /\ LET references == References(text)
         Same(i) == {k \in DOMAIN references :
                       Key(references[k]) = Key(unique_refs[i])}
     IN /\ \E i \in DOMAIN unique_refs :
             /\ unique_refs[i].subfigure # NoSubfigure
             /\ \E k, l \in Same(i) :
                   /\ references[k].pattern = references[l].pattern
                   /\ references[k].start < references[l].start
        /\ \E i \in DOMAIN unique_refs :
             references[MinOf(Same(i))].start > unique_refs[i].start

(***************************************************************************)
(* C11: no returned reference without subfigure spans characters that a    *)
(* match of one of the subfigure patterns (the first three of PATTERNS)    *)
(* spans.                                                                  *)
(***************************************************************************)
Overlap(r1, r2) == r1.start < r2.end /\ r2.start < r1.end

C11_NoBareOverSubfigure ==
  extractStep = "extracted" =>
     \A i \in DOMAIN unique_refs :
        unique_refs[i].subfigure = NoSubfigure =>
           \A k \in DOMAIN References(text) :
              PATTERNS[References(text)[k].pattern].has_subfigure
                 => ~Overlap(unique_refs[i], References(text)[k])

FallbackNums == Bound(figure_map) \ CitedNums(texts)
PrimaryBound == Bound(figure_map) \cap CitedNums(texts)

\* the least number from start on that is not a key of the primary pass
FirstFree(start) ==
  CHOOSE n \in start..(start + Cardinality(CitedNums(texts))) :
     /\ n \notin CitedNums(texts)
     /\ \A m \in start..(n - 1) : m \in CitedNums(texts)

\* C13 as stated: the fallback numbers start at one more than the largest
\* number the primary pass bound an image to (at 1 when it bound none),
\* skipping the numbers already taken
C13_StartAboveBound ==
  FallbackNums # {} =>
     MinOf(FallbackNums) =
        FirstFree(IF PrimaryBound = {} THEN 1 ELSE MaxOf(PrimaryBound) + 1)

\* C13 amended: the fallback numbers start at one more than the largest
\* cited number, bound or not (at 1 when no number is cited), and are
\* consecutive
C13_StartAboveCited ==
  FallbackNums # {} =>
     LET start == IF CitedNums(texts) = {} THEN 1 ELSE MaxOf(CitedNums(texts)) + 1
     IN FallbackNums = start..(start + Cardinality(FallbackNums) - 1)

\* two fallback figures follow a cited number that has no image and that
\* is larger than every number with an image of the primary pass
C13_Witness ==
  /\ Cardinality(FallbackNums) = 2
  /\ \E n \in DOMAIN figure_map :
        /\ IsNone(figure_map[n])
        /\ \A m \in PrimaryBound : m < n

(***************************************************************************)
(* Scenario B: a document of ten pages whose text cites Figure 1 on page 3 *)
(* and Figure 2 on pages 8 and 9, with one image on each of the pages 2,   *)
(* 3 and 10.                                                               *)
(***************************************************************************)
ScenarioSizes == {20000, 30000, 50000, 60000, 80000}

ScenarioBCites ==
  [p \in 1..10 |-> IF p = 3 THEN {1} ELSE IF p \in {8, 9} THEN {2} ELSE {}]

ScenarioBDocs ==
  {[figs |-> <<[page |-> 2, size |-> s2], [page |-> 3, size |-> s3],
               [page |-> 10, size |-> s10]>>,
    cites |-> ScenarioBCites] :
     s2 \in ScenarioSizes, s3 \in ScenarioSizes, s10 \in ScenarioSizes}

InitScenarioB == InitAgent /\ doc \in ScenarioBDocs /\ ParserIdle /\ ExtractorIdle /\ LoadersIdle

SpecScenarioB == InitScenarioB /\ [][NextMatch]_vars

\* C14 as stated: whatever the sizes, Figure 1 is bound to the image of
\* page 3 and Figure 2 to the image of page 10
C14_ScenarioB ==
  last.op # "init" =>
     /\ {1, 2} \subseteq Bound(figure_map)
     /\ figure_map[1].page = 3
     /\ figure_map[2].page = 10

\* C14 amended: Figure 2 is bound to the image of page 10; Figure 1 is
\* bound to the image of page 3 when that image has more bytes than the
\* image of page 2, and to the image of page 2 otherwise
C14_ScenarioBBySize ==
  last.op # "init" =>
     /\ {1, 2} \subseteq Bound(figure_map)
     /\ figure_map[2].page = 10
     /\ figure_map[1].page = IF all_images[2].size > all_images[1].size THEN 3 ELSE 2

\* the images of pages 2 and 3 have the same size above the high threshold,
\* and the image left over became a fallback figure
C14_Witness ==
  /\ last.op = "load_pdf"
  /\ Len(all_images) = 3
  /\ all_images[1].size = all_images[2].size
  /\ all_images[1].size > HighThreshold
  /\ 3 \in Bound(figure_map)

(***************************************************************************)
(* C15: a completed load_pdf leaves in figure_map exactly what a matching  *)
(* pass over the new document's images and texts gives, every record with  *)
(* empty subfigures and split_attempted false; no record, subfigure map or *)
(* flag of the document loaded before survives.                            *)
(***************************************************************************)
FreshMap(d) == MatchFiguresIntelligently(MakeTexts(d), MakeImages(d.figs)).fm

C15_ReplacedWholesale ==
  [][last'.op = "load_pdf" =>
       /\ figure_map' = FreshMap(doc')
       /\ \A n \in Bound(figure_map') :
            /\ figure_map'[n].subfigures = EmptyDict
            /\ ~figure_map'[n].split_attempted
            /\ \E i \in DOMAIN all_images' :
                  /\ all_images'[i].path = figure_map'[n].path
                  /\ all_images'[i].page = figure_map'[n].page]_vars

\* a document was loaded over one with a split record, and the number of
\* that record has a record again
C15_Witness ==
  /\ last.op = "load_pdf"
  /\ \E n \in last.replaced : n \in Bound(figure_map)

(***************************************************************************)
(* Two callers, each with a SmartAgent of its own, run load_pdf at the     *)
(* same time.  A loader holds its agent's data_dir, the parsed document,   *)
(* all_images and figure_map; the files raw_<idx> of the directory         *)
(* data_dir/images are shared by every agent with that data_dir.  The      *)
(* bytes of an image are named by the document and the index they come     *)
(* from.                                                                   *)
(***************************************************************************)
Agents == {"A", "B"}
DataDirs == {"./data", "./data2"}

NewLoader(dir, d) ==
  [data_dir |-> dir, doc |-> d, pc |-> "new", texts |-> << >>,
   all_images |-> << >>, figure_map |-> EmptyDict]

InitLoaders ==
  /\ InitAgent /\ doc = NoDoc /\ ParserIdle /\ ExtractorIdle
  /\ \E dA \in LifeDocs, dB \in LifeDocs, dirB \in DataDirs :
        loaders = [a \in Agents |->
                     IF a = "A" THEN NewLoader("./data", dA) ELSE NewLoader(dirB, dB)]
  /\ files = << >>

\* lines 51-63: the PDF is parsed, self.texts is set, self.all_images = []
LoaderParse(a) ==
  /\ loaders[a].pc = "new"
  /\ loaders' = [loaders EXCEPT ![a].pc = "images",
                                ![a].texts = MakeTexts(loaders[a].doc)]
  /\ UNCHANGED files
  /\ UNCHANGED <<agentVars, parserVars, extractorVars>>

\* lines 64-74, one iteration: raw_<idx> is written and the image appended
LoaderWriteImage(a) ==
  LET idx == Len(loaders[a].all_images)
      fig_data == loaders[a].doc.figs[idx + 1]
  IN /\ loaders[a].pc = "images"
     /\ idx < Len(loaders[a].doc.figs)
     /\ files' = DictSet(files, <<loaders[a].data_dir, idx>>, <<a, idx>>)
     /\ loaders' = [loaders EXCEPT ![a].all_images =
                       Append(@, [id |-> idx, path |-> idx,
                                  page |-> fig_data.page, size |-> fig_data.size])]
     /\ UNCHANGED <<agentVars, parserVars, extractorVars>>

\* line 81 to the end
LoaderMatch(a) ==
  /\ loaders[a].pc = "images"
  /\ Len(loaders[a].all_images) = Len(loaders[a].doc.figs)
  /\ loaders' = [loaders EXCEPT
                   ![a].pc = "complete",
                   ![a].figure_map =
                      MatchFiguresIntelligently(loaders[a].texts,
                                                loaders[a].all_images).fm]
  /\ UNCHANGED files
  /\ UNCHANGED <<agentVars, parserVars, extractorVars>>

NextLoaders ==
  \E a \in Agents : LoaderParse(a) \/ LoaderWriteImage(a) \/ LoaderMatch(a)

SpecLoaders == InitLoaders /\ [][NextLoaders]_vars

(***************************************************************************)
(* C16: when both loads are complete, each agent's figure_map is the one   *)
(* its document gives alone, and the file at every record's path holds     *)
(* the bytes of the image of that agent the record was bound to.           *)
(***************************************************************************)
C16_IndependentLoads ==
  (\A a \in Agents : loaders[a].pc = "complete") =>
     \A a \in Agents :
        /\ loaders[a].figure_map = FreshMap(loaders[a].doc)
        /\ \A n \in Bound(loaders[a].figure_map) :
             files[<<loaders[a].data_dir, loaders[a].figure_map[n].path>>]
                = <<a, loaders[a].figure_map[n].path>>

(***************************************************************************)
(* Two /query/stream requests served by one event loop (routes.py lines    *)
(* 184-216): each request drives its own SmartAgent.query generator over   *)
(* the shared agent, and the loop switches between them after every event  *)
(* a generator yields (the await at line 211).                             *)
(***************************************************************************)
StreamStart ==
  /\ \E q \in Generators, n \in ReqNums \cup {NoFig}, s \in ReqSubs \cup {NoSub} :
        QueryCall(q, n, s)
  /\ UNCHANGED <<parserVars, extractorVars, loaderVars>>

StreamStep ==
  /\ \E q \in Generators :
        \/ QueryLookup(q)
        \/ \E env \in SplitEnv, c \in Counts : QuerySplit(q, env, c)
        \/ QueryFailed(q)
        \/ QuerySelect(q)
  /\ UNCHANGED <<parserVars, extractorVars, loaderVars>>

NextStreams == Load \/ StreamStart \/ StreamStep

SpecStreams == Init /\ [][NextStreams]_vars

(***************************************************************************)
(* C17: when two streaming queries that name the same not-yet-split figure *)
(* interleave at the generator's yield points, SubfigureSplitter.split is  *)
(* still invoked at most once for that record.                             *)
(***************************************************************************)
C17_SplitOnceInterleaved ==
  \A n \in Bound(figure_map) : splitCalls[n] <= 1

(***************************************************************************)
(* C18: every cited figure number bound in the primary pass, with f the    *)
(* smallest page citing it, is bound to an image on a page p with          *)
(* max(1, f-2) <= p <= f+2 that is bound to no lower figure number; cited  *)
(* numbers are processed in ascending order, so a lower number had the     *)
(* first pick: an image bound to a higher cited number that lay in the     *)
(* lower number's window did not beat the lower number's image.            *)
(***************************************************************************)
FirstMention(n) == MinOf(FigurePages(texts)[n])
ImageOf(n) == all_images[figure_map[n].path + 1]
InWindow(p, f) == Max2(1, f - 2) <= p /\ p <= f + 2

C18_WindowAndOrder ==
  \A n \in PrimaryBound :
     /\ InWindow(ImageOf(n).page, FirstMention(n))
     /\ \A m \in Bound(figure_map) : m < n => ImageOf(m).id # ImageOf(n).id
     /\ \A m \in PrimaryBound :
           (m < n /\ InWindow(ImageOf(n).page, FirstMention(m))) =>
              \/ ImageOf(m).size > ImageOf(n).size
              \/ ImageOf(m).size = ImageOf(n).size /\ ImageOf(m).id < ImageOf(n).id

\* two cited numbers are bound; the lower one, first cited on a later page,
\* took the larger image although the other image has the lower id
C18_Witness ==
  /\ last.op = "load_pdf"
  /\ \E m, n \in PrimaryBound :
        /\ m < n
        /\ InWindow(ImageOf(n).page, FirstMention(m))
        /\ ImageOf(m).size > ImageOf(n).size
        /\ ImageOf(m).id > ImageOf(n).id
        /\ FirstMention(m) > FirstMention(n)

(***************************************************************************)
(* Scenario A: a document of three pages whose text cites Figure 1 on page *)
(* 3, with up to ScenarioAImages embedded images on that page, among them  *)
(* the 80KB and the 5KB image of the scenario.  The parser hands over the  *)
(* images of at least min_image_size bytes, which SmartAgent.__init__ sets *)
(* to 20000.                                                               *)
(***************************************************************************)
ScenarioAImages == 3

MinImageSize == 20000

EmbeddedSizes == {5000, 20000, 30000, 60000, 80000}

\* pdf_parser_improved.py, lines 165, 282, 301 and 364
FilterSmall(embedded) == SelectSeq(embedded, LAMBDA img : img.size >= MinImageSize)

ScenarioACites == [p \in 1..3 |-> IF p = 3 THEN {1} ELSE {}]

ScenarioAEmbedded ==
  {[i \in 1..k |-> [page |-> 3, size |-> sz[i]]] :
     k \in 1..ScenarioAImages, sz \in [1..ScenarioAImages -> EmbeddedSizes]}

ScenarioADocs ==
  {[figs |-> FilterSmall(e), cites |-> ScenarioACites, embedded |-> e] :
     e \in ScenarioAEmbedded}

InitScenarioA == InitAgent /\ doc \in ScenarioADocs /\ ParserIdle /\ ExtractorIdle /\ LoadersIdle

SpecScenarioA == InitScenarioA /\ [][NextMatch]_vars

(***************************************************************************)
(* C19: the image bound to a cited figure comes from the first non-empty   *)
(* tier of its candidate pool (size > 50000, size > 20000, the whole       *)
(* pool), has the maximal byte size of that tier and, among the images of  *)
(* that size, the lowest id.                                               *)
(***************************************************************************)
\* indices of the images in the window of n that no lower cited number took
Pool(n) ==
  {i \in 1..Len(all_images) :
     /\ InWindow(all_images[i].page, FirstMention(n))
     /\ \A m \in PrimaryBound : m < n => ImageOf(m).id # all_images[i].id}

Above(P, t) == {i \in P : all_images[i].size > t}

Tier(P) ==
  IF Above(P, HighThreshold) # {} THEN Above(P, HighThreshold)
  ELSE IF Above(P, LowThreshold) # {} THEN Above(P, LowThreshold)
  ELSE P

C19_TieredLargest ==
  \A n \in PrimaryBound :
     LET w == figure_map[n].path + 1
     IN /\ w \in Tier(Pool(n))
        /\ \A i \in Tier(Pool(n)) :
              /\ all_images[i].size <= all_images[w].size
              /\ all_images[i].size = all_images[w].size =>
                    all_images[w].id <= all_images[i].id

\* the page holds the 5KB image and two 80KB images: the 5KB image does not
\* reach all_images and Figure 1 is bound to the first of the other two
C19_Witness ==
  /\ last.op = "load_pdf"
  /\ Len(doc.embedded) = 3
  /\ doc.embedded[1].size = 5000
  /\ Len(all_images) = 2
  /\ all_images[1].size = 80000
  /\ all_images[2].size = 80000
  /\ 1 \in Bound(figure_map)
  /\ figure_map[1].path = all_images[1].path

(***************************************************************************)
(* Documents for the fallback pass: up to FallbackImages images with sizes *)
(* on both sides of the high threshold, and the citations of one page.     *)
(***************************************************************************)
FallbackImages == 3

FallbackSizes == {40000, 60000, 80000}

FallbackDocs ==
  {[figs |-> f, cites |-> [p \in 1..MaxPage |-> IF p = q THEN c ELSE {}]] :
     f \in {s \in SeqsUpTo([page : 1..MaxPage, size : FallbackSizes], FallbackImages) :
              \A i \in 1..(Len(s) - 1) : s[i].page <= s[i + 1].page},
     q \in 1..MaxPage, c \in SUBSET (1..MaxFig)}

InitFallback == InitAgent /\ doc \in FallbackDocs /\ ParserIdle /\ ExtractorIdle /\ LoadersIdle

SpecFallback == InitFallback /\ [][NextMatch]_vars

(***************************************************************************)
(* C20: the fallback pass binds exactly the images the primary pass left   *)
(* unused whose size is > 50000, each once, in order of ascending page     *)
(* and, within a page, descending size, to strictly increasing figure      *)
(* numbers; the entries of the cited numbers stay what the primary pass    *)
(* made them, and an unused image of size <= 50000 is bound to no number.  *)
(***************************************************************************)
\* indices of the images no cited number is bound to
Unused ==
  {i \in 1..Len(all_images) :
     \A m \in PrimaryBound : ImageOf(m).id # all_images[i].id}

FallbackBound == {figure_map[n].path + 1 : n \in FallbackNums}

C20_FallbackExact ==
  (last.op # "init" /\ ~raised) =>
     /\ FallbackBound = {i \in Unused : all_images[i].size > HighThreshold}
     /\ Cardinality(FallbackNums) = Cardinality(FallbackBound)
     /\ \A n1, n2 \in FallbackNums :
           n1 < n2 =>
              \/ ImageOf(n1).page < ImageOf(n2).page
              \/ /\ ImageOf(n1).page = ImageOf(n2).page
                 /\ ImageOf(n1).size >= ImageOf(n2).size
     /\ \A n \in CitedNums(texts) :
           /\ n \in DOMAIN figure_map
           /\ IsNone(figure_map[n]) <=> Pool(n) = {}
           /\ ~IsNone(figure_map[n]) => InWindow(ImageOf(n).page, FirstMention(n))

\* Figure 1 is cited far from the three images of one page and stays
\* unbound; the 80000-byte image becomes Figure 2 before the 60000-byte one,
\* which has the lower id; the 40000-byte image is bound to nothing
C20_Witness ==
  /\ last.op = "load_pdf"
  /\ Len(all_images) = 3
  /\ all_images[1].size = 40000
  /\ all_images[2].size = 60000
  /\ all_images[3].size = 80000
  /\ DOMAIN figure_map = {1, 2, 3}
  /\ IsNone(figure_map[1])
  /\ figure_map[2].path = all_images[3].path
  /\ figure_map[3].path = all_images[2].path

(***************************************************************************)
(* C21 as claimed: any two input rectangles that _merge_nearby_bboxes      *)
(* absorbs into the same returned rectangle have a horizontal gap and a    *)
(* vertical gap of at most the threshold.                                  *)
(***************************************************************************)
HGap(a, b) == Max2(0, Max2(a.x0 - b.x1, b.x0 - a.x1))
VGap(a, b) == Max2(0, Max2(a.y0 - b.y1, b.y0 - a.y1))
WithinGaps(a, b, t) == HGap(a, b) <= t /\ VGap(a, b) <= t

\* the smallest rectangle around the input rectangles with positions in S
BoundingBox(S) ==
  Rect(MinOf({image_bboxes[i].x0 : i \in S}), MinOf({image_bboxes[i].y0 : i \in S}),
       MaxOf({image_bboxes[i].x1 : i \in S}), MaxOf({image_bboxes[i].y1 : i \in S}))

C21_PairwiseGaps ==
  mergeStep = "merged" =>
     \A k \in DOMAIN merged_bboxes :
        \A i, j \in merged_bboxes[k].src :
           WithinGaps(image_bboxes[i], image_bboxes[j], threshold)

\* C21 amended: every input rectangle absorbed into a returned rectangle
\* together with others has a horizontal and a vertical gap of at most the
\* threshold to the bounding rectangle of those others; two of the inputs
\* may lie further apart than the threshold
C21_GapToRest ==
  mergeStep = "merged" =>
     \A k \in DOMAIN merged_bboxes :
        LET src == merged_bboxes[k].src
        IN Cardinality(src) >= 2 =>
              \A i \in src :
                 WithinGaps(image_bboxes[i], BoundingBox(src \ {i}), threshold)

\* a returned rectangle absorbed two inputs that are further apart than the
\* threshold
C21_Witness ==
  /\ mergeStep = "merged"
  /\ \E k \in DOMAIN merged_bboxes :
        \E i, j \in merged_bboxes[k].src :
           ~WithinGaps(image_bboxes[i], image_bboxes[j], threshold)

(***************************************************************************)
(* _merge_nearby_bboxes pass by pass: one action per pass of the while     *)
(* loop of lines 199-231.                                                  *)
(***************************************************************************)
InitMergeLoop ==
  /\ InitAgent /\ doc = NoDoc /\ ExtractorIdle /\ LoadersIdle
  /\ image_bboxes \in RectLists
  /\ threshold \in Thresholds
  /\ merged_bboxes = << >>
  /\ other_threshold = 0
  /\ other_bboxes = << >>
  /\ mergeStep = "idle"
  /\ image_groups = << >>
  /\ ParseIdle
  /\ loop_merged = << >>
  /\ changed = FALSE
  /\ passStep = "input"

\* lines 192-198
MergeEnter ==
  /\ passStep = "input"
  /\ IF image_bboxes = << >>
       THEN /\ merged_bboxes' = << >>
            /\ passStep' = "returned"
            /\ UNCHANGED <<loop_merged, changed>>
       ELSE /\ loop_merged' = Tagged(image_bboxes)
            /\ changed' = TRUE
            /\ passStep' = "loop"
            /\ UNCHANGED merged_bboxes
  /\ UNCHANGED <<image_bboxes, threshold, other_threshold, other_bboxes, mergeStep>>
  /\ UNCHANGED <<agentVars, extractorVars, loaderVars, image_groups, parseVars>>

\* lines 199-231: the loop test and one pass
MergeOnePass ==
  /\ passStep = "loop"
  /\ changed
  /\ LET pass == MergePass(loop_merged, threshold, 1,
                           [new_merged |-> << >>, used |-> {}, changed |-> FALSE])
     IN /\ loop_merged' = pass.new_merged
        /\ changed' = pass.changed
  /\ UNCHANGED <<image_bboxes, threshold, merged_bboxes, other_threshold,
                 other_bboxes, mergeStep, passStep>>
  /\ UNCHANGED <<agentVars, extractorVars, loaderVars, image_groups, parseVars>>

\* lines 199 and 233: the loop test fails, merged is returned
MergeReturn ==
  /\ passStep = "loop"
  /\ ~changed
  /\ merged_bboxes' = loop_merged
  /\ passStep' = "returned"
  /\ UNCHANGED <<image_bboxes, threshold, other_threshold, other_bboxes, mergeStep,
                 loop_merged, changed>>
  /\ UNCHANGED <<agentVars, extractorVars, loaderVars, image_groups, parseVars>>

NextMergeLoop == MergeEnter \/ MergeOnePass \/ MergeReturn

SpecMergeLoop == InitMergeLoop /\ [][NextMergeLoop]_vars

\* the call runs on: a step that can be taken is taken
SpecMergeLoopFair == SpecMergeLoop /\ WF_vars(NextMergeLoop)

(***************************************************************************)
(* C27: _merge_nearby_bboxes terminates on every finite rectangle list: a  *)
(* pass that absorbs a rectangle leaves a strictly shorter list, the loop  *)
(* stops after the first pass that absorbs nothing, and an empty input     *)
(* returns an empty list.                                                  *)
(***************************************************************************)
C27_Terminates ==
  /\ [][(passStep = "loop" /\ passStep' = "loop") =>
          IF changed' THEN Len(loop_merged') < Len(loop_merged)
          ELSE loop_merged' = loop_merged]_vars
  /\ [][(passStep = "loop" /\ ~changed) => passStep' = "returned"]_vars
  /\ [](passStep = "returned" /\ image_bboxes = << >> => merged_bboxes = << >>)
  /\ <>(passStep = "returned")

\* the call returned after a pass that absorbed two rectangles and a pass
\* that absorbed nothing
C27_Witness ==
  /\ passStep = "returned"
  /\ Len(image_bboxes) = 3
  /\ Len(merged_bboxes) = 1

(***************************************************************************)
(* C30: for a figure whose splitter run detected at least one panel, the   *)
(* set of subfigure labels stored in its record is the same whichever      *)
(* consumer triggered the split: for k panels it is the set of the first k *)
(* letters that a split triggered by SmartAgent.query stores, so that a    *)
(* later request for label "a" resolves to a subfigure image.              *)
(***************************************************************************)
C30_SameLabels ==
  \A n \in Bound(figure_map) :
     figure_map[n].subfigures # EmptyDict =>
        DOMAIN figure_map[n].subfigures =
           {LetterLabels[i] : i \in 1..Cardinality(DOMAIN figure_map[n].subfigures)}

(***************************************************************************)
(* C28: the image the primary pass binds to a figure is an image of        *)
(* maximal byte size in the figure's whole candidate pool, the one with    *)
(* the lowest id among those: the tiers of 50000 and 20000 bytes never     *)
(* select another image than the maximum of the full pool does.            *)
(***************************************************************************)
C28_MaxOfPool ==
  \A n \in PrimaryBound :
     LET w == figure_map[n].path + 1
     IN /\ w \in Pool(n)
        /\ \A i \in Pool(n) :
              \/ all_images[i].size < all_images[w].size
              \/ all_images[i].size = all_images[w].size /\ w <= i

\* the pool holds images of all three tiers and the largest is bound,
\* although it comes last
C28_Witness ==
  /\ last.op = "load_pdf"
  /\ Len(all_images) = 3
  /\ all_images[1].size = 20000
  /\ all_images[2].size = 30000
  /\ all_images[3].size = 60000
  /\ 1 \in Bound(figure_map)
  /\ figure_map[1].path = all_images[3].path

(***************************************************************************)
(* C29: after a matching pass every extracted image of more than 50000     *)
(* bytes is bound to exactly one figure number of figure_map.              *)
(***************************************************************************)
NumbersOf(i) == {n \in Bound(figure_map) : figure_map[n].path = all_images[i].path}

C29_LargeAllBound ==
  (last.op # "init" /\ ~raised) =>
     \A i \in 1..Len(all_images) :
        all_images[i].size > HighThreshold => Cardinality(NumbersOf(i)) = 1

\* three images above the threshold: one went to the cited figure, the
\* other two were bound by the fallback pass
C29_Witness ==
  /\ last.op = "load_pdf"
  /\ Len(all_images) = 3
  /\ \A i \in 1..3 : all_images[i].size > HighThreshold
  /\ Cardinality(PrimaryBound) = 1
  /\ Cardinality(FallbackNums) = 2

(***************************************************************************)
(* ImprovedPDFParser._group_nearby_images, lines 315-337.  A group is the  *)
(* sequence of the positions its images have in image_data.                *)
(***************************************************************************)
Members(group) == {group[e] : e \in DOMAIN group}

\* lines 322-335: img joins the first group that holds an image nearby
RECURSIVE GroupLoop(_, _, _, _)
GroupLoop(bbs, t, k, grps) ==
  IF k > Len(bbs) THEN grps
  ELSE LET hits == {g \in DOMAIN grps :
                      \E e \in Members(grps[g]) : IsNearby(bbs[k], bbs[e], t)}
       IN GroupLoop(bbs, t, k + 1,
            IF hits = {} THEN Append(grps, <<k>>)
            ELSE [grps EXCEPT ![MinOf(hits)] = Append(@, k)])

GroupNearbyImages(bbs, t) ==
  IF bbs = << >> THEN << >> ELSE GroupLoop(bbs, t, 2, << <<1>> >>)

\* the rectangles that were merged are grouped at the same threshold
GroupCall ==
  /\ mergeStep = "merged"
  /\ image_groups' = GroupNearbyImages(image_bboxes, threshold)
  /\ mergeStep' = "grouped"
  /\ UNCHANGED <<image_bboxes, threshold, merged_bboxes, other_threshold, other_bboxes>>
  /\ UNCHANGED <<agentVars, extractorVars, loaderVars, passVars, parseVars>>

NextGroup == MergeCall \/ GroupCall

SpecGroup == InitMerge /\ [][NextGroup]_vars

(***************************************************************************)
(* C23: for one list of image rectangles and one threshold, two images are *)
(* in the same group of _group_nearby_images exactly when                  *)
(* _merge_nearby_bboxes absorbs their rectangles into the same region, and *)
(* no image of one group is nearby an image of another group.              *)
(***************************************************************************)
SameGroup(i, j) == \E g \in DOMAIN image_groups : {i, j} \subseteq Members(image_groups[g])
SameRegion(i, j) == \E k \in DOMAIN merged_bboxes : {i, j} \subseteq merged_bboxes[k].src

C23_SameClustering ==
  mergeStep = "grouped" =>
     \A i, j \in DOMAIN image_bboxes :
        /\ SameGroup(i, j) <=> SameRegion(i, j)
        /\ ~SameGroup(i, j) => ~IsNearby(image_bboxes[i], image_bboxes[j], threshold)

(***************************************************************************)
(* ImprovedPDFParser.parse and its extraction strategies.  A page is the   *)
(* list of its embedded image objects, in the order page.get_images lists  *)
(* them; an object has the rectangle page.get_image_rects gives it and the *)
(* byte size of its image.  Coordinates are multiples of GridUnit.         *)
(***************************************************************************)
GridUnit == 50
MaxObjects == 2
ParsePages == 2

\* the default thresholds of _merge_nearby_bboxes and _group_nearby_images
RegionThreshold == 80
GroupThreshold == 50

\* line 261: an object of at most this many bytes is no fragment
FragmentSize == 5000

\* lines 37-39, and the values SmartAgent.__init__ sets
DefaultConfig == [min_image_size |-> 50000, min_bbox_area |-> 10000, max_aspect_ratio |-> 5]
AgentConfig == [min_image_size |-> MinImageSize, min_bbox_area |-> 5000, max_aspect_ratio |-> 8]
Configs == {DefaultConfig, AgentConfig}

Modes == {"region_crop", "merge_images", "hybrid", "extract_raw"}

Cell(x, y, w, h) ==
  Rect(GridUnit * x, GridUnit * y, GridUnit * (x + w), GridUnit * (y + h))

\* squares of one and two cells in six places, and a banner six cells wide
PageRects ==
  {Cell(x, y, d, d) : x \in {0, 2, 5}, y \in {0, 4}, d \in {1, 2}} \cup {Cell(0, 0, 6, 1)}

ObjectSizes == {4000, 30000, 60000}

\* what page.get_pixmap(...).tobytes gives for a region: it raises, or the
\* PNG has this many bytes
RasterOutcomes ==
  {[raised |-> TRUE, size |-> 0], [raised |-> FALSE, size |-> 10000],
   [raised |-> FALSE, size |-> 60000]}

Objects == [rect : PageRects, size : ObjectSizes]

Width(b) == b.x1 - b.x0
Height(b) == b.y1 - b.y0
Area(b) == Width(b) * Height(b)

\* lines 141-142 and 379-380, for a whole-numbered max_aspect_ratio
TooElongated(b, cfg) ==
  Max2(Width(b), Height(b)) > cfg.max_aspect_ratio * Max2(Min2(Width(b), Height(b)), 1)

\* lines 130-145
FilterBboxes(bbs, cfg) ==
  SelectSeq(bbs, LAMBDA b : ~(Area(b) < cfg.min_bbox_area) /\ ~TooElongated(b, cfg))

\* the loop that gives up at the first region whose rasterization raises
RECURSIVE CropRegionsUntilRaise(_, _, _, _, _, _)
CropRegionsUntilRaise(filtered, out, cfg, pno, idx, acc) ==
  IF idx > Len(filtered) THEN acc
  ELSE LET entry == [page |-> pno, index |-> idx - 1, bbox |-> filtered[idx],
                     outcome |-> out[idx]]
           logged == [acc EXCEPT !.log = Append(@, entry)]
       IN IF out[idx].raised THEN logged
          ELSE IF out[idx].size < cfg.min_image_size
            THEN CropRegionsUntilRaise(filtered, out, cfg, pno, idx + 1, logged)
          ELSE CropRegionsUntilRaise(filtered, out, cfg, pno, idx + 1,
                 [logged EXCEPT !.figs =
                    Append(@, [page |-> pno, index |-> idx - 1, size |-> out[idx].size,
                               bbox |-> filtered[idx],
                               extraction_method |-> "region_crop"])])

\* lines 148-179: one region after the other is rasterized; acc holds the
\* figures and, for the record, what became of each region
RECURSIVE CropRegions(_, _, _, _, _, _)
CropRegions(filtered, out, cfg, pno, idx, acc) ==
  IF idx > Len(filtered) THEN acc
  ELSE LET entry == [page |-> pno, index |-> idx - 1, bbox |-> filtered[idx],
                     outcome |-> out[idx]]
           logged == [acc EXCEPT !.log = Append(@, entry)]
       IN IF out[idx].raised
            THEN CropRegions(filtered, out, cfg, pno, idx + 1, logged)
          ELSE IF out[idx].size < cfg.min_image_size
            THEN CropRegions(filtered, out, cfg, pno, idx + 1, logged)
          ELSE CropRegions(filtered, out, cfg, pno, idx + 1,
                 [logged EXCEPT !.figs =
                    Append(@, [page |-> pno, index |-> idx - 1, size |-> out[idx].size,
                               bbox |-> filtered[idx],
                               extraction_method |-> "region_crop"])])

NoFigures == [figs |-> << >>, log |-> << >>]

\* _extract_by_region_crop, lines 95-181
ExtractByRegionCrop(objs, out, cfg, pno) ==
  LET bboxes == [i \in DOMAIN objs |-> objs[i].rect]
  IN IF bboxes = << >> THEN NoFigures
     ELSE CropRegions(
            FilterBboxes(MergeNearbyBboxes(bboxes, RegionThreshold), cfg),
            out, cfg, pno, 1, NoFigures)

\* _merge_bboxes_to_one, lines 339-345
MergeBboxesToOne(bbs) ==
  Rect(MinOf({bbs[i].x0 : i \in DOMAIN bbs}), MinOf({bbs[i].y0 : i \in DOMAIN bbs}),
       MaxOf({bbs[i].x1 : i \in DOMAIN bbs}), MaxOf({bbs[i].y1 : i \in DOMAIN bbs}))

\* lines 278-311: a group of one image keeps its bytes, a larger group is
\* rasterized
RECURSIVE MergeGroups(_, _, _, _, _, _, _)
MergeGroups(image_data, grps, out, cfg, pno, idx, figs) ==
  IF idx > Len(grps) THEN figs
  ELSE LET group == grps[idx]
           merged_bbox == MergeBboxesToOne([e \in DOMAIN group |-> image_data[group[e]].rect])
           one == image_data[group[1]]
           fig == IF Len(group) = 1
                    THEN [page |-> pno, index |-> idx - 1, size |-> one.size,
                          bbox |-> one.rect, extraction_method |-> "single_image"]
                  ELSE [page |-> pno, index |-> idx - 1, size |-> out[idx].size,
                        bbox |-> merged_bbox, extraction_method |-> "merged_region"]
           kept == IF Len(group) = 1 THEN one.size >= cfg.min_image_size
                   ELSE ~out[idx].raised /\ out[idx].size >= cfg.min_image_size
       IN MergeGroups(image_data, grps, out, cfg, pno, idx + 1,
                      IF kept THEN Append(figs, fig) ELSE figs)

\* _extract_by_merging, lines 243-313
ExtractByMerging(objs, out, cfg, pno) ==
  LET image_data == SelectSeq(objs, LAMBDA o : o.size > FragmentSize)
      bboxes == [i \in DOMAIN image_data |-> image_data[i].rect]
  IN IF image_data = << >> THEN << >>
     ELSE MergeGroups(image_data, GroupNearbyImages(bboxes, GroupThreshold),
                      out, cfg, pno, 1, << >>)

\* _extract_raw_images, lines 347-396
RECURSIVE ExtractRawImages(_, _, _, _, _)
ExtractRawImages(objs, cfg, pno, img_index, figs) ==
  IF img_index > Len(objs) THEN figs
  ELSE LET o == objs[img_index]
           kept == /\ ~(o.size < cfg.min_image_size)
                   /\ ~(Area(o.rect) < cfg.min_bbox_area)
                   /\ ~TooElongated(o.rect, cfg)
       IN ExtractRawImages(objs, cfg, pno, img_index + 1,
            IF kept THEN Append(figs, [page |-> pno, index |-> img_index - 1,
                                       size |-> o.size, bbox |-> o.rect,
                                       extraction_method |-> "raw_filtered"])
            ELSE figs)

\* parse, lines 70-82: the figures of one page, by mode
PageFigures(mode, objs, out1, out2, cfg, pno) ==
  LET crop == ExtractByRegionCrop(objs, out1, cfg, pno)
  IN IF mode = "region_crop" THEN crop
     ELSE IF mode = "merge_images"
       THEN [figs |-> ExtractByMerging(objs, out2, cfg, pno), log |-> << >>]
     ELSE IF mode = "hybrid"
       THEN IF crop.figs # << >> THEN crop
            ELSE [figs |-> ExtractByMerging(objs, out2, cfg, pno), log |-> crop.log]
     ELSE [figs |-> ExtractRawImages(objs, cfg, pno, 1, << >>), log |-> << >>]

Rasters == [1..MaxObjects -> RasterOutcomes]

\* parse, lines 59-84: one page
ParsePage ==
  /\ page_num < Len(pdf)
  /\ \E out1 \in Rasters, out2 \in Rasters :
        LET page_figures == PageFigures(extraction_mode, pdf[page_num + 1].objects,
                                        out1, out2, config, page_num + 1)
        IN /\ figures' = figures \o page_figures.figs
           /\ raster_log' = raster_log \o page_figures.log
  /\ page_num' = page_num + 1
  /\ UNCHANGED <<pdf, extraction_mode, config>>
  /\ UNCHANGED <<image_bboxes, threshold, merged_bboxes, other_threshold, other_bboxes,
                 mergeStep, passVars, image_groups>>
  /\ UNCHANGED <<agentVars, extractorVars, loaderVars>>

\* load_pdf, lines 51-94, on what parse returned: the images get their ids
\* and are matched with the citations of the pages
LoadParsed ==
  /\ pdf # << >>
  /\ page_num = Len(pdf)
  /\ last.op = "init"
  /\ LET d == [figs |-> [i \in DOMAIN figures |->
                           [page |-> figures[i].page, size |-> figures[i].size]],
               cites |-> [p \in DOMAIN pdf |-> pdf[p].cites]]
     IN LoadPdf(d) /\ doc' = d
  /\ UNCHANGED <<parserVars, extractorVars, loaderVars>>

NextParse == ParsePage \/ LoadParsed

\* one page with any objects, parsed in any mode under either configuration
InitPage ==
  /\ InitAgent /\ doc = NoDoc /\ ExtractorIdle /\ LoadersIdle
  /\ image_bboxes = << >> /\ threshold = 0 /\ merged_bboxes = << >>
  /\ other_threshold = 0 /\ other_bboxes = << >> /\ mergeStep = "idle"
  /\ PassIdle /\ image_groups = << >>
  /\ pdf \in {<<[objects |-> o, cites |-> {1}]>> : o \in SeqsUpTo(Objects, MaxObjects)}
  /\ pdf # << [objects |-> << >>, cites |-> {1}] >>
  /\ extraction_mode \in Modes
  /\ config \in Configs
  /\ page_num = 0
  /\ figures = << >>
  /\ raster_log = << >>

SpecPage == InitPage /\ [][NextParse]_vars

(***************************************************************************)
(* C22: in every extraction mode, every figure parse emits has a byte size *)
(* >= min_image_size, a bounding-box area >= min_bbox_area and an aspect   *)
(* ratio (longer side over shorter side) <= max_aspect_ratio.              *)
(***************************************************************************)
C22_AllFiltersHold ==
  \A i \in DOMAIN figures :
     LET f == figures[i]
     IN /\ f.size >= config.min_image_size
        /\ Area(f.bbox) >= config.min_bbox_area
        /\ Max2(Width(f.bbox), Height(f.bbox)) <=
              config.max_aspect_ratio * Min2(Width(f.bbox), Height(f.bbox))

(***************************************************************************)
(* C25: among the figures of one page, a region that lies above another,   *)
(* or at the same height and to its left, receives the smaller id,         *)
(* whatever the order in which the page lists its image objects.           *)
(***************************************************************************)
ReadsBefore(a, b) ==
  \/ a.y1 <= b.y0
  \/ a.y0 = b.y0 /\ a.x1 <= b.x0

C25_ReadingOrder ==
  last.op = "load_pdf" =>
     \A i, j \in DOMAIN figures :
        (figures[i].page = figures[j].page /\ ReadsBefore(figures[i].bbox, figures[j].bbox))
           => all_images[i].id < all_images[j].id

(***************************************************************************)
(* A document of ParsePages pages, each with up to MaxObjects large images *)
(* in two places that are too far apart to be merged; the text of page 1   *)
(* cites Figure 1.  SmartAgent parses in hybrid mode with its own filter   *)
(* values; region_crop is the parser's default.                            *)
(***************************************************************************)
DocObjects == [rect : {Cell(0, 0, 2, 2), Cell(5, 0, 2, 2)}, size : {60000}]

DocPages ==
  [1..ParsePages -> SeqsUpTo(DocObjects, MaxObjects)]

InitParse ==
  /\ InitAgent /\ doc = NoDoc /\ ExtractorIdle /\ LoadersIdle
  /\ image_bboxes = << >> /\ threshold = 0 /\ merged_bboxes = << >>
  /\ other_threshold = 0 /\ other_bboxes = << >> /\ mergeStep = "idle"
  /\ PassIdle /\ image_groups = << >>
  /\ \E o \in DocPages :
        pdf = [p \in 1..ParsePages |->
                 [objects |-> o[p], cites |-> IF p = 1 THEN {1} ELSE {}]]
  /\ extraction_mode \in {"region_crop", "hybrid"}
  /\ config = AgentConfig
  /\ page_num = 0
  /\ figures = << >>
  /\ raster_log = << >>

SpecParse == InitParse /\ [][NextParse]_vars

(***************************************************************************)
(* C24: the ids load_pdf gives to the extracted images are exactly         *)
(* 0..n-1, each once, for the n figures parse emitted, and follow page     *)
(* order: a smaller id means a page that is not later.                     *)
(***************************************************************************)
C24_DenseIdsInPageOrder ==
  last.op = "load_pdf" =>
     /\ Len(all_images) = Len(figures)
     /\ {all_images[i].id : i \in DOMAIN all_images} = 0..(Len(figures) - 1)
     /\ \A i, j \in DOMAIN all_images :
           /\ all_images[i].id = all_images[j].id => i = j
           /\ all_images[i].id < all_images[j].id => all_images[i].page <= all_images[j].page

\* three images were loaded, from both pages
C24_Witness ==
  /\ last.op = "load_pdf"
  /\ Len(all_images) = 3
  /\ all_images[1].page = 1
  /\ all_images[3].page = 2

(***************************************************************************)
(* C26: in region-crop extraction a region whose rasterization raises is   *)
(* the only one omitted: every accepted region of a page that parse has    *)
(* been through was rasterized, each region whose rasterization succeeded  *)
(* with at least min_image_size bytes is among the figures, and the pages  *)
(* that follow are processed.                                              *)
(***************************************************************************)
\* the regions of page p that pass the area and aspect filters
Accepted(p) ==
  LET objs == pdf[p].objects
  IN IF objs = << >> THEN << >>
     ELSE FilterBboxes(MergeNearbyBboxes([i \in DOMAIN objs |-> objs[i].rect],
                                         RegionThreshold), config)

Logged(p, idx) ==
  {e \in DOMAIN raster_log : raster_log[e].page = p /\ raster_log[e].index = idx - 1}

Emitted(p, idx) ==
  {f \in DOMAIN figures :
     /\ figures[f].page = p /\ figures[f].index = idx - 1
     /\ figures[f].extraction_method = "region_crop"}

C26_RaiseSkipsOneRegion ==
  \A p \in 1..page_num :
     \A idx \in DOMAIN Accepted(p) :
        /\ Cardinality(Logged(p, idx)) = 1
        /\ \A e \in Logged(p, idx) :
              /\ raster_log[e].bbox = Accepted(p)[idx]
              /\ IF ~raster_log[e].outcome.raised
                    /\ raster_log[e].outcome.size >= config.min_image_size
                   THEN /\ Cardinality(Emitted(p, idx)) = 1
                        /\ \A f \in Emitted(p, idx) :
                              /\ figures[f].bbox = Accepted(p)[idx]
                              /\ figures[f].size = raster_log[e].outcome.size
                 ELSE Emitted(p, idx) = {}

\* the first region of page 1 raised, its second region was emitted, and so
\* was a region of page 2
C26_Witness ==
  /\ page_num = ParsePages
  /\ Len(raster_log) >= 3
  /\ raster_log[1].page = 1 /\ raster_log[1].outcome.raised
  /\ Emitted(1, 2) # {}
  /\ \E idx \in DOMAIN Accepted(2) : Emitted(2, idx) # {}

====
